---- MODULE Spec2Model ----
(***************************************************************************)
(* Verification model of the rfp_scraper repository.                       *)
(*                                                                         *)
(* Part 1: the background Job Manager (rfp_scraper/job_manager.py).        *)
(* Every method of JobManager runs its body inside `with self._lock`; the  *)
(* lock is a variable: a call of a client runs as one step that needs the  *)
(* lock free; the worker's critical sections of job_wrapper take the lock  *)
(* in one step and run the body and release it in the next.  The threads   *)
(* are one worker per started job (the thread running job_wrapper) and the *)
(* polling clients of the manager.                                         *)
(***************************************************************************)
EXTENDS Integers, Sequences, FiniteSets, TLC

(***************************************************************************)
(* Bounds of the model                                                     *)
(***************************************************************************)
MaxJobs == 2          \* number of jobs that may be started
MaxCalls == 2         \* add_log / update_progress / get_job / get_active_jobs calls in a run

(***************************************************************************)
(* Values                                                                  *)
(***************************************************************************)
None == "None"                      \* Python None
JobIds == 1..MaxJobs                \* uuid4 job ids: fresh and opaque
Clients == {<<"client", 1>>}        \* threads polling the manager (the UI)
WorkerOf(j) == <<"worker", j>>      \* the thread running job_wrapper of job j
NoThread == <<"nobody", 0>>
Msgs == {"m1", "m2"}                \* log messages
ProgressMsgs == {"m1", None}        \* update_progress: with a message or without
Results == {"r1"}                   \* values target_func may return
Errors == {"e1"}                    \* str(e) of exceptions target_func may raise
ProgressOne == 6                    \* progress 1.0, in units of 1/6
ProgressInputs == {0 - 1, 1, ProgressOne + 1}  \* below 0.0, 1/6, above 1.0

VARIABLES
  jobs,      \* JobManager.jobs: job id -> job record
  lock,      \* JobManager._lock: the call holding it (op = "free" when not held)
  wpc,       \* position of each job's worker thread in job_wrapper
  wout,      \* what target_func returned or raised in each worker
  ret,       \* the value last returned to each client by get_job / get_active_jobs
  ncalls,    \* number of manager calls made so far (bounds the run)
  today,     \* datetime.now().date()
  fin,       \* the arguments of the function under study
  fout,      \* its results
  fpc,       \* "input" before the function is applied, "done" after
  bids,      \* the rows of table scraped_bids, in insertion order
  ninserts,  \* insert_bid calls made
  task,      \* run_scraping_task: its position, arguments and all_results
  scr,       \* HierarchicalScraper.scrape: its position, results and counters
  obs,       \* what happened in the run: the jurisdictions that returned, those that threw
  agencies,  \* table agencies: its rows in rowid order and the AUTOINCREMENT counter
  sync,      \* CisaManager.sync_state_database run twice: position, cache, counters
  disc,      \* the discovery runs: position, task list, what the last step looked at
  deep,      \* the deep scans of the scraper instances: position and agency of each
  gate,      \* the ComplianceManager of each scraper instance: parsers and request times
  web,       \* the clock, and what was asked of the gate, fetched and navigated so far
  uin,       \* the arguments of the call of a URL function that is checked
  uout,      \* what the call returned
  upc,       \* "idle", "call" before the call, "done" after it
  juris,     \* the table local_jurisdictions: its rows and the last id given out
  calls,     \* the jobs that open the store and append jurisdictions: position, arguments, result
  browser_page,  \* the browser page of a deep scan: whether it is open, its title and its text
  cap        \* the deep scan that waits for bot challenges: position, agency, clock

jmVars == <<jobs, lock, wpc, wout, ret, ncalls>>
pureVars == <<fin, fout, fpc>>
storeVars == <<bids, ninserts>>
scrapeVars == <<task, scr, obs>>
regVars == <<agencies, sync, disc>>
deepVars == <<deep, gate, web>>
urlVars == <<uin, uout, upc>>
jurVars == <<juris, calls>>
capVars == <<browser_page, cap>>
\* what the steps of each part leave alone
jmRest == <<today, pureVars, storeVars, scrapeVars, regVars, deepVars, urlVars, jurVars, capVars>>
dateRest == <<jmVars, storeVars, scrapeVars, regVars, deepVars, urlVars, jurVars, capVars>>
slugRest == <<jmVars, scrapeVars, regVars, deepVars, urlVars, jurVars, capVars>>
scrapeRest == <<lock, wpc, wout, ret, ncalls, today, pureVars, regVars, deepVars, urlVars, jurVars, capVars>>
syncRest == <<jmVars, today, pureVars, storeVars, scrapeVars, disc, deepVars, urlVars, jurVars, capVars>>
discRest == <<jmVars, today, pureVars, storeVars, scrapeVars, sync, deepVars, urlVars, jurVars, capVars>>
deepRest == <<jmVars, today, pureVars, ninserts, scrapeVars, regVars, urlVars, jurVars, capVars>>
urlRest == <<jmVars, today, pureVars, storeVars, scrapeVars, regVars, deepVars, jurVars, capVars>>
jurRest == <<jmVars, today, pureVars, storeVars, scrapeVars, sync, disc, deepVars, urlVars, capVars>>
capRest == <<jmVars, today, pureVars, storeVars, scrapeVars, regVars, deepVars, urlVars, jurVars>>

Min(a, b) == IF a < b THEN a ELSE b
Max(a, b) == IF a > b THEN a ELSE b

\* "[HH:MM:SS] message": the clock value is not modelled, only that the entry is stamped
Stamped(message) == [stamped |-> TRUE, text |-> message]
\* "❌ Critical Error: <str(e)>" is appended without a timestamp
CriticalEntry(e) == [stamped |-> FALSE, text |-> e]
CompletedMsg == "completed"          \* "✅ Task completed successfully."

Call(t, op, jid, p, m) == [owner |-> t, op |-> op, jid |-> jid, progress |-> p, msg |-> m]
Free == Call(NoThread, "free", 0, 0, None)

\* the record start_job stores for a new job (name and start_time never change and are left out)
new_job == [status |-> "running", progress |-> 0, logs |-> <<>>,
            result |-> None, error |-> None, thread |-> FALSE]

\* a variant of add_log that keeps only the newest entry
add_log_newest(js, job_id, message) ==
  IF job_id \in DOMAIN js
  THEN [js EXCEPT ![job_id].logs = <<Stamped(message)>>]
  ELSE js

\* add_log: append a stamped entry if the job exists
add_log(js, job_id, message) ==
  IF job_id \in DOMAIN js
  THEN [js EXCEPT ![job_id].logs = Append(@, Stamped(message))]
  ELSE js

\* a variant of update_progress that derives the status from the progress
update_progress_status(js, job_id, progress, message) ==
  IF job_id \in DOMAIN js
  THEN [js EXCEPT ![job_id].progress = Max(0, Min(ProgressOne, progress)),
                  ![job_id].status = IF progress >= ProgressOne THEN "completed" ELSE "running",
                  ![job_id].logs = IF message # None THEN Append(@, Stamped(message)) ELSE @]
  ELSE js

\* a variant of update_progress that stores the progress as given
update_progress_unclamped(js, job_id, progress, message) ==
  IF job_id \in DOMAIN js
  THEN [js EXCEPT ![job_id].progress = progress,
                  ![job_id].logs = IF message # None THEN Append(@, Stamped(message)) ELSE @]
  ELSE js

\* update_progress: clamp the progress into [0.0, 1.0]; append a stamped entry if a message is given
update_progress(js, job_id, progress, message) ==
  IF job_id \in DOMAIN js
  THEN [js EXCEPT ![job_id].progress = Max(0, Min(ProgressOne, progress)),
                  ![job_id].logs = IF message # None THEN Append(@, Stamped(message)) ELSE @]
  ELSE js

\* job_wrapper, target_func returned: the records the dictionary goes through
\* inside the critical section, one per assignment (result, status, progress)
wrapper_completed_steps(js, job_id, result) ==
  IF job_id \in DOMAIN js
  THEN {[js[job_id] EXCEPT !.result = result],
        [js[job_id] EXCEPT !.result = result, !.status = "completed"],
        [js[job_id] EXCEPT !.result = result, !.status = "completed", !.progress = ProgressOne]}
  ELSE {}

\* a variant of the try branch that records the result and leaves the status
wrapper_completed_unmarked(js, job_id, result) ==
  IF job_id \in DOMAIN js
  THEN [js EXCEPT ![job_id].result = result, ![job_id].progress = ProgressOne]
  ELSE js

\* job_wrapper, target_func returned: result, status and progress are set under the lock
wrapper_completed(js, job_id, result) ==
  IF job_id \in DOMAIN js
  THEN [js EXCEPT ![job_id].result = result,
                  ![job_id].status = "completed",
                  ![job_id].progress = ProgressOne]
  ELSE js

\* a variant of the except branch that marks every job that is still running
wrapper_failed_all(js, job_id, e) ==
  [k \in DOMAIN js |->
     IF k = job_id \/ js[k].status = "running"
     THEN [js[k] EXCEPT !.status = "failed", !.error = e,
                        !.logs = Append(@, CriticalEntry(e))]
     ELSE js[k]]

\* job_wrapper, except branch: status, error and the critical log entry are set under the lock
wrapper_failed(js, job_id, e) ==
  IF job_id \in DOMAIN js
  THEN [js EXCEPT ![job_id].status = "failed",
                  ![job_id].error = e,
                  ![job_id].logs = Append(@, CriticalEntry(e))]
  ELSE js

\* get_job returns the stored dictionary itself (a reference), or None
get_job(js, job_id) ==
  IF job_id \in DOMAIN js THEN [kind |-> "ref", id |-> job_id, items |-> {}]
  ELSE [kind |-> "none", id |-> 0, items |-> {}]

\* get_active_jobs builds {"id": jid, **info} for the running jobs: the scalar
\* fields are copied, the logs list is shared with the stored record
get_active_jobs(js) ==
  [kind |-> "list", id |-> 0,
   items |-> {[id |-> j, status |-> js[j].status, progress |-> js[j].progress,
               result |-> js[j].result, error |-> js[j].error, logsOf |-> j] :
              j \in {k \in DOMAIN js : js[k].status = "running"}}]
NoRet == [kind |-> "nothing", id |-> 0, items |-> {}]

(***************************************************************************)
(* Actions of the Job Manager                                              *)
(***************************************************************************)
JMInit ==
  /\ jobs = <<>>
  /\ lock = Free
  /\ wpc = [j \in JobIds |-> "unstarted"]
  /\ wout = [j \in JobIds |-> None]
  /\ ret = [c \in Clients |-> NoRet]
  /\ ncalls = 0

\* start_job: the record of a fresh job is stored in the first critical section,
\* the thread handle in the second, and the worker thread is started.  No other
\* thread reads or writes the new record between the two sections (its id is
\* not known to anyone before start_job returns), so they are one step.
StartJob(c) ==
  /\ lock = Free
  /\ Len(jobs) < MaxJobs
  /\ jobs' = Append(jobs, [new_job EXCEPT !.thread = TRUE])
  /\ wpc' = [wpc EXCEPT ![Len(jobs) + 1] = "work"]
  /\ UNCHANGED <<lock, wout, ret, ncalls>>
  /\ UNCHANGED jmRest

\* a thread able to call the manager's logging interface: a client for any job id
\* (also one not stored yet), a worker from inside target_func for its own job
Callers(jid) == Clients \cup {WorkerOf(j) : j \in {k \in JobIds : k = jid /\ wpc[k] = "work"}}

\* add_log(job_id, message): the body runs while the caller holds the lock
AddLog(t, jid, m) ==
  /\ lock = Free
  /\ ncalls < MaxCalls
  /\ t \in Callers(jid)
  /\ jobs' = add_log(jobs, jid, m)
  /\ ncalls' = ncalls + 1
  /\ UNCHANGED <<lock, wpc, wout, ret>>
  /\ UNCHANGED jmRest

\* update_progress(job_id, progress, message)
UpdateProgress(t, jid, p, m) ==
  /\ lock = Free
  /\ ncalls < MaxCalls
  /\ t \in Callers(jid)
  /\ jobs' = update_progress(jobs, jid, p, m)
  /\ ncalls' = ncalls + 1
  /\ UNCHANGED <<lock, wpc, wout, ret>>
  /\ UNCHANGED jmRest

\* get_job(job_id) and get_active_jobs() read under the lock
GetJob(c, jid) ==
  /\ lock = Free
  /\ ncalls < MaxCalls
  /\ ret' = [ret EXCEPT ![c] = get_job(jobs, jid)]
  /\ ncalls' = ncalls + 1
  /\ UNCHANGED <<jobs, lock, wpc, wout>>
  /\ UNCHANGED jmRest

GetActiveJobs(c) ==
  /\ lock = Free
  /\ ncalls < MaxCalls
  /\ ret' = [ret EXCEPT ![c] = get_active_jobs(jobs)]
  /\ ncalls' = ncalls + 1
  /\ UNCHANGED <<jobs, lock, wpc, wout>>
  /\ UNCHANGED jmRest

\* job_wrapper: target_func(job_id, self, *args) returns a value and the worker
\* enters the critical section that records it ...
WorkReturns(j, r) ==
  /\ lock = Free
  /\ wpc[j] = "work"
  /\ wout' = [wout EXCEPT ![j] = r]
  /\ lock' = Call(WorkerOf(j), "complete", j, 0, None)
  /\ UNCHANGED <<jobs, wpc, ret, ncalls>>
  /\ UNCHANGED jmRest

\* ... or raises an exception and the worker enters the except branch
WorkRaises(j, e) ==
  /\ lock = Free
  /\ wpc[j] = "work"
  /\ wout' = [wout EXCEPT ![j] = e]
  /\ lock' = Call(WorkerOf(j), "fail", j, 0, None)
  /\ UNCHANGED <<jobs, wpc, ret, ncalls>>
  /\ UNCHANGED jmRest

Complete ==
  /\ lock.op = "complete"
  /\ jobs' = wrapper_completed(jobs, lock.jid, wout[lock.jid])
  /\ wpc' = [wpc EXCEPT ![lock.jid] = "completed"]
  /\ lock' = Free
  /\ UNCHANGED <<wout, ret, ncalls>>
  /\ UNCHANGED jmRest

\* self.add_log(job_id, "✅ Task completed successfully."), after the lock was released
CompletedLogAcquire(j) ==
  /\ lock = Free
  /\ wpc[j] = "completed"
  /\ lock' = Call(WorkerOf(j), "completed_log", j, 0, CompletedMsg)
  /\ UNCHANGED <<jobs, wpc, wout, ret, ncalls>>
  /\ UNCHANGED jmRest

CompletedLog ==
  /\ lock.op = "completed_log"
  /\ jobs' = add_log(jobs, lock.jid, lock.msg)
  /\ wpc' = [wpc EXCEPT ![lock.jid] = "done"]
  /\ lock' = Free
  /\ UNCHANGED <<wout, ret, ncalls>>
  /\ UNCHANGED jmRest

Fail ==
  /\ lock.op = "fail"
  /\ jobs' = wrapper_failed(jobs, lock.jid, wout[lock.jid])
  /\ wpc' = [wpc EXCEPT ![lock.jid] = "done"]
  /\ lock' = Free
  /\ UNCHANGED <<wout, ret, ncalls>>
  /\ UNCHANGED jmRest

JMNext ==
  \/ \E c \in Clients : StartJob(c)
  \/ \E jid \in JobIds, m \in Msgs : \E t \in Callers(jid) : AddLog(t, jid, m)
  \/ \E jid \in JobIds, p \in ProgressInputs, m \in ProgressMsgs :
       \E t \in Callers(jid) : UpdateProgress(t, jid, p, m)
  \/ \E c \in Clients, jid \in JobIds : GetJob(c, jid)
  \/ \E c \in Clients : GetActiveJobs(c)
  \/ \E j \in JobIds, r \in Results : WorkReturns(j, r)
  \/ \E j \in JobIds, e \in Errors : WorkRaises(j, e)
  \/ Complete
  \/ \E j \in JobIds : CompletedLogAcquire(j)
  \/ CompletedLog
  \/ Fail

(***************************************************************************)
(* Part 2: dates (rfp_scraper/utils.py, run_db_cleanup.py).                *)
(* A calendar date is a record [y, m, d].  A deadline string is what a     *)
(* site adapter or the generative extractor hands over: None, the empty    *)
(* string, free text, or a date written in some format.  dateutil's        *)
(* parser.parse is modelled by what it does with such a string: it fails   *)
(* on text, fills the fields the string does not give from today's date,   *)
(* and fails when the day does not exist in the month.                     *)
(***************************************************************************)
MaxBuffer == 3        \* largest buffer_days tried
MaxAhead == 2         \* deadlines reach from today - 1 to today + MaxBuffer + MaxAhead days

IsLeap(y) == y % 4 = 0 /\ (y % 100 # 0 \/ y % 400 = 0)
DaysInMonth(y, m) ==
  IF m = 2 THEN (IF IsLeap(y) THEN 29 ELSE 28)
  ELSE IF m \in {4, 6, 9, 11} THEN 30 ELSE 31
RECURSIVE DaysBeforeMonth(_, _)
DaysBeforeMonth(y, m) == IF m = 1 THEN 0 ELSE DaysBeforeMonth(y, m - 1) + DaysInMonth(y, m - 1)
DaysBeforeYear(y) == (y - 1) * 365 + ((y - 1) \div 4) - ((y - 1) \div 100) + ((y - 1) \div 400)
\* date.toordinal()
Ordinal(dt) == DaysBeforeYear(dt.y) + DaysBeforeMonth(dt.y, dt.m) + dt.d

Date(y, m, d) == [y |-> y, m |-> m, d |-> d]
ValidDate(dt) == dt.m \in 1..12 /\ dt.d \in 1..DaysInMonth(dt.y, dt.m)
Years == 2023..2026
Calendar == {dt \in [y : Years, m : 1..12, d : 1..31] : ValidDate(dt)}
\* date.fromordinal(n), for the years of the model
FromOrdinal(n) == CHOOSE dt \in Calendar : Ordinal(dt) = n
\* date + timedelta(days = k)
PlusDays(dt, k) == FromOrdinal(Ordinal(dt) + k)

\* deadline strings: fmt "iso" is YYYY-MM-DD, "us" is MM/DD/YYYY, "monthday" is
\* a month and a day without a year ("March 3"), "text" is free text ("TBD")
DateStr(fmt, dt) == [fmt |-> fmt, y |-> dt.y, m |-> dt.m, d |-> dt.d]
EmptyStr == [fmt |-> "empty", y |-> 0, m |-> 0, d |-> 0]
NoneStr == [fmt |-> "none", y |-> 0, m |-> 0, d |-> 0]
TextStr == [fmt |-> "text", y |-> 0, m |-> 0, d |-> 0]
Falsy(s) == s.fmt \in {"none", "empty"}           \* `not date_str`

\* dateutil.parser.parse(s) with the default date today: the parsed date, or a
\* failure (an exception) for text and for a day that is not in the month
ParseFailure == [ok |-> FALSE, date |-> Date(0, 0, 0)]
parser_parse(s, now) ==
  IF s.fmt \in {"iso", "us"}
  THEN IF ValidDate(Date(s.y, s.m, s.d))
       THEN [ok |-> TRUE, date |-> Date(s.y, s.m, s.d)] ELSE ParseFailure
  ELSE IF s.fmt = "monthday"
  THEN IF ValidDate(Date(now.y, s.m, s.d))
       THEN [ok |-> TRUE, date |-> Date(now.y, s.m, s.d)] ELSE ParseFailure
  ELSE ParseFailure

\* utils.normalize_date: YYYY-MM-DD, or None when the string is empty or parsing fails
normalize_date(s, now) ==
  IF Falsy(s) THEN NoneStr
  ELSE IF parser_parse(s, now).ok THEN DateStr("iso", parser_parse(s, now).date)
  ELSE NoneStr

\* a variant of is_future_deadline that asks for a deadline after the cutoff date
is_future_deadline_strict(s, buffer_days, now) ==
  IF Falsy(s) THEN FALSE
  ELSE IF parser_parse(s, now).ok
       THEN Ordinal(parser_parse(s, now).date) > Ordinal(PlusDays(now, buffer_days))
       ELSE FALSE

\* utils.is_future_deadline
is_future_deadline(s, buffer_days, now) ==
  IF Falsy(s) THEN FALSE
  ELSE IF parser_parse(s, now).ok
       THEN Ordinal(parser_parse(s, now).date) >= Ordinal(PlusDays(now, buffer_days))
       ELSE FALSE

\* run_db_cleanup.is_future_deadline: normalizes first, then strptime("%Y-%m-%d")
cleanup_is_future_deadline(s, buffer_days, now) ==
  IF Falsy(s) THEN FALSE
  ELSE IF normalize_date(s, now) = NoneStr THEN FALSE
  ELSE Ordinal(Date(normalize_date(s, now).y, normalize_date(s, now).m, normalize_date(s, now).d))
         >= Ordinal(PlusDays(now, buffer_days))

\* the dates on which the model is run: before the end of February in a leap
\* year and in a common year, and at the end of a year
Todays == {Date(2024, 2, 27), Date(2025, 2, 27), Date(2025, 12, 30)}
\* the deadline strings tried: a date `ahead` days from today in a format, or no date
DateKinds == {"iso", "us", "monthday", "text", "empty", "none", "badday"}
Aheads == (0 - 1)..(MaxBuffer + MaxAhead)
MakeDeadline(kind, ahead, now) ==
  IF kind \in {"iso", "us", "monthday"} THEN DateStr(kind, PlusDays(now, ahead))
  ELSE IF kind = "badday" THEN DateStr("iso", Date(now.y, 2, 30))
  ELSE IF kind = "text" THEN TextStr
  ELSE IF kind = "empty" THEN EmptyStr
  ELSE NoneStr

NoInput == [kind |-> "none", ahead |-> 0, buffer |-> 0]
NoOutput == [utils |-> FALSE, cleanup |-> FALSE, normalized |-> NoneStr]
PureIdle == fin = NoInput /\ fout = NoOutput /\ fpc = "idle"

DateInit ==
  /\ today \in Todays
  /\ fin \in [kind : DateKinds, ahead : Aheads, buffer : 0..MaxBuffer]
  /\ fout = NoOutput
  /\ fpc = "input"

\* is_future_deadline(deadline, buffer_days) of utils.py is applied
ApplyIsFutureDeadline ==
  /\ fpc = "input"
  /\ fout' = [fout EXCEPT !.utils =
                 is_future_deadline(MakeDeadline(fin.kind, fin.ahead, today), fin.buffer, today),
               !.normalized = normalize_date(MakeDeadline(fin.kind, fin.ahead, today), today)]
  /\ fpc' = "utils"
  /\ UNCHANGED <<today, fin>>
  /\ UNCHANGED dateRest

\* is_future_deadline(deadline, buffer_days) of run_db_cleanup.py is applied
ApplyCleanupIsFutureDeadline ==
  /\ fpc = "utils"
  /\ fout' = [fout EXCEPT !.cleanup =
                 cleanup_is_future_deadline(MakeDeadline(fin.kind, fin.ahead, today), fin.buffer, today)]
  /\ fpc' = "done"
  /\ UNCHANGED <<today, fin>>
  /\ UNCHANGED dateRest

DateNext == ApplyIsFutureDeadline \/ ApplyCleanupIsFutureDeadline

(***************************************************************************)
(* Part 3: text and the opportunity store (rfp_scraper/utils.py, db.py).   *)
(* A Python str is a sequence of one-character strings, so that lower(),   *)
(* title(), split/join and the `in` substring test are computed.           *)
(***************************************************************************)
MaxInserts == 3       \* insert_bid calls in a run of the store

\* Python None where a str is expected: no string of characters equals it
NoText == <<None>>
Uppers == <<"A", "B", "C", "D", "E", "F", "G", "H", "I", "J", "K", "L", "M", "N", "O", "P", "Q", "R", "S", "T", "U", "V", "W", "X", "Y", "Z">>
Lowers == <<"a", "b", "c", "d", "e", "f", "g", "h", "i", "j", "k", "l", "m", "n", "o", "p", "q", "r", "s", "t", "u", "v", "w", "x", "y", "z">>
UpperToLower == [c \in {Uppers[i] : i \in DOMAIN Uppers} |-> Lowers[CHOOSE i \in DOMAIN Uppers : Uppers[i] = c]]
LowerToUpper == [c \in {Lowers[i] : i \in DOMAIN Lowers} |-> Uppers[CHOOSE i \in DOMAIN Lowers : Lowers[i] = c]]
IsUpper(c) == c \in DOMAIN UpperToLower
IsLower(c) == c \in DOMAIN LowerToUpper
IsLetter(c) == IsUpper(c) \/ IsLower(c)
LowerChar(c) == IF IsUpper(c) THEN UpperToLower[c] ELSE c
UpperChar(c) == IF IsLower(c) THEN LowerToUpper[c] ELSE c
\* str.lower()
Lower(s) == [i \in DOMAIN s |-> LowerChar(s[i])]
\* `sub in s`
Contains(sub, s) == \E i \in 0..(Len(s) - Len(sub)) : SubSeq(s, i + 1, i + Len(sub)) = sub
\* str.startswith / str.endswith
StartsWith(s, pre) == Len(pre) <= Len(s) /\ SubSeq(s, 1, Len(pre)) = pre
EndsWith(s, suf) == Len(suf) <= Len(s) /\ SubSeq(s, Len(s) - Len(suf) + 1, Len(s)) = suf
\* " ".join(text.split()): runs of blanks become one blank, none at the ends
RECURSIVE JoinSplit(_)
JoinSplit(s) ==
  IF s = <<>> THEN <<>>
  ELSE IF Head(s) = " " THEN JoinSplit(Tail(s))
  ELSE IF Len(s) >= 2 /\ s[2] = " "
       THEN (IF JoinSplit(Tail(s)) = <<>> THEN <<Head(s)>> ELSE <<Head(s), " ">> \o JoinSplit(Tail(s)))
       ELSE <<Head(s)>> \o JoinSplit(Tail(s))
\* str.title(): a letter is upper case after a non-letter and lower case after a letter
Title(s) ==
  [i \in DOMAIN s |-> IF i > 1 /\ IsLetter(s[i - 1]) THEN LowerChar(s[i]) ELSE UpperChar(s[i])]
\* utils.clean_text
clean_text(text) == IF text = <<>> THEN <<>> ELSE Title(JoinSplit(text))

\* hashlib.md5(raw).hexdigest(): distinct strings have distinct digests
md5(raw) == [md5_of |-> raw]
\* a fingerprint computed from the strings as given, without lower()
generate_slug_cased(title, client_name, source_url) ==
  md5(title \o <<"|">> \o client_name \o <<"|">> \o source_url)
\* DatabaseHandler.generate_slug
generate_slug(title, client_name, source_url) ==
  md5(Lower(title) \o <<"|">> \o Lower(client_name) \o <<"|">> \o Lower(source_url))

BidRow(slug, client_name, title, deadline, scraped_at, source_url, state, rfp_description, matching_trades) ==
  [slug |-> slug, client_name |-> client_name, title |-> title, deadline |-> deadline,
   scraped_at |-> scraped_at, source_url |-> source_url, state |-> state,
   rfp_description |-> rfp_description, matching_trades |-> matching_trades]
\* ON CONFLICT(slug) DO UPDATE SET state, scraped_at, deadline, rfp_description, matching_trades
Upsert(old, new) ==
  [old EXCEPT !.state = new.state, !.scraped_at = new.scraped_at, !.deadline = new.deadline,
              !.rfp_description = IF new.rfp_description = NoText THEN old.rfp_description
                                  ELSE new.rfp_description,
              !.matching_trades = new.matching_trades]
\* DatabaseHandler.insert_bid on the table `rows`, with scraped_at = now
insert_bid(rows, slug, client_name, title, deadline, source_url, state, rfp_description, matching_trades, now) ==
  LET new == BidRow(slug, client_name, title, deadline, now, source_url, state,
                    rfp_description, matching_trades)
  IN IF \E i \in DOMAIN rows : rows[i].slug = slug
     THEN [i \in DOMAIN rows |-> IF rows[i].slug = slug THEN Upsert(rows[i], new) ELSE rows[i]]
     ELSE Append(rows, new)

\* the opportunities offered to the store: titles and clients that differ in
\* case only, and two triples whose joined strings coincide
SlugInput(title, client, url, deadline, description) ==
  [title |-> title, client |-> client, url |-> url, deadline |-> deadline, description |-> description]
SlugInputs == {
  SlugInput(<<"R", "o", "a", "d">>, <<"c">>, <<"h", "t", "t", "p", ":", "/", "/", "x", ".", "g", "o", "v">>, DateStr("iso", Date(2025, 3, 3)), <<"d">>),
  SlugInput(<<"R", "O", "A", "D">>, <<"c">>, <<"h", "t", "t", "p", ":", "/", "/", "X", ".", "g", "o", "v">>, DateStr("iso", Date(2025, 4, 4)), NoText),
  SlugInput(<<"R", "o", "a", "d">>, <<"b", "|", "c">>, <<"h", "t", "t", "p", ":", "/", "/", "x", ".", "g", "o", "v">>, DateStr("iso", Date(2025, 3, 3)), NoText),
  SlugInput(<<"a", "|", "b">>, <<"c">>, <<"h", "t", "t", "p", ":", "/", "/", "x", ".", "g", "o", "v">>, DateStr("iso", Date(2025, 3, 3)), <<"d">>),
  SlugInput(<<"a">>, <<"b", "|", "c">>, <<"h", "t", "t", "p", ":", "/", "/", "x", ".", "g", "o", "v">>, DateStr("iso", Date(2025, 4, 4)), <<"e">>),
  SlugInput(<<"A">>, <<"b", "|", "c">>, <<"h", "t", "t", "p", ":", "/", "/", "x", ".", "g", "o", "v">>, DateStr("iso", Date(2025, 3, 3)), NoText) }

StoreIdle == bids = <<>> /\ ninserts = 0

SlugInit ==
  /\ bids = <<>>
  /\ ninserts = 0
  /\ today = Date(2025, 2, 27)
  /\ fin = NoInput
  /\ fout = NoOutput
  /\ fpc = "store"

\* the caller computes the fingerprint and persists the opportunity (hierarchical.py 233-239)
InsertBid(o) ==
  /\ fpc = "store"
  /\ ninserts < MaxInserts
  /\ bids' = insert_bid(bids, generate_slug(o.title, o.client, o.url), o.client, o.title,
                        o.deadline, o.url, "Connecticut", o.description, <<"t">>, today)
  /\ fin' = o
  /\ ninserts' = ninserts + 1
  /\ UNCHANGED <<today, fout, fpc>>
  /\ UNCHANGED slugRest

SlugNext == \E o \in SlugInputs : InsertBid(o)

(***************************************************************************)
(* Part 4: the QA pipeline helpers (rfp_scraper/utils.py, db.py,           *)
(* scrapers/hierarchical.py).                                              *)
(***************************************************************************)
BLOCKED_URL_PATTERNS == {
  <<"c", "a", "l", "e", "n", "d", "a", "r">>, <<"e", "v", "e", "n", "t">>, <<"n", "e", "w", "s", "l", "e", "t", "t", "e", "r">>, <<"s", "t", "o", "r", "y", "t", "i", "m", "e">>, <<"m", "e", "e", "t", "i", "n", "g">>, <<"m", "i", "n", "u", "t", "e", "s">>,
  <<"p", "a", "y", "-", "b", "i", "l", "l">>, <<"t", "a", "x">>, <<"p", "o", "r", "t", "a", "l">>, <<"l", "o", "g", "i", "n">>, <<"j", "o", "b">>, <<"c", "a", "r", "e", "e", "r">>, <<"e", "m", "p", "l", "o", "y", "m", "e", "n", "t">>,
  <<"f", "a", "q">>, <<"p", "o", "l", "i", "c", "y">>, <<"c", "o", "n", "t", "a", "c", "t">> }
INVALID_CONTENT_TERMS == {
  <<"t", "a", "x", " ", "r", "e", "t", "u", "r", "n">>, <<"r", "e", "a", "d", "i", "n", "g", " ", "c", "h", "a", "l", "l", "e", "n", "g", "e">>, <<"v", "a", "c", "c", "i", "n", "a", "t", "i", "o", "n">>, <<"s", "u", "p", "p", "o", "r", "t", " ", "g", "r", "o", "u", "p">>,
  <<"s", "u", "b", "s", "t", "i", "t", "u", "t", "e", " ", "t", "e", "a", "c", "h", "e", "r">>, <<"i", "n", "t", "e", "r", "n", "s", "h", "i", "p">>, <<"j", "a", "n", "i", "t", "o", "r", "i", "a", "l">>, <<"c", "l", "e", "a", "n", "i", "n", "g">>,
  <<"s", "o", "f", "t", "w", "a", "r", "e", " ", "l", "i", "c", "e", "n", "s", "i", "n", "g">>, <<"c", "a", "t", "e", "r", "i", "n", "g">>, <<"s", "e", "c", "u", "r", "i", "t", "y", " ", "g", "u", "a", "r", "d">>,
  <<"h", "i", "g", "h", "w", "a", "y", " ", "b", "r", "i", "d", "g", "e", " ", "r", "e", "h", "a", "b", "i", "l", "i", "t", "a", "t", "i", "o", "n">> }
GENERIC_TITLES == {<<"u", "n", "t", "i", "t", "l", "e", "d">>, <<"h", "o", "m", "e">>, <<"p", "a", "g", "e", " ", "n", "o", "t", " ", "f", "o", "u", "n", "d">>, <<"b", "i", "d", "s">>, <<"r", "f", "p">>, <<"p", "r", "o", "c", "u", "r", "e", "m", "e", "n", "t">>}

\* `x or default`, for a string that may be None or empty
OrElse(x, default) == IF x = NoText \/ x = <<>> THEN default ELSE x

\* HierarchicalScraper.should_visit_url
should_visit_url(url, text) ==
  IF url = NoText \/ url = <<>> THEN FALSE
  ELSE \A pattern \in BLOCKED_URL_PATTERNS :
         ~Contains(pattern, Lower(url)) /\ ~Contains(pattern, Lower(OrElse(text, <<>>)))

\* str.strip() for blanks
RECURSIVE LStrip(_)
LStrip(s) == IF s # <<>> /\ Head(s) = " " THEN LStrip(Tail(s)) ELSE s
RECURSIVE RStripChar(_, _)
RStripChar(s, c) == IF s # <<>> /\ s[Len(s)] = c THEN RStripChar(SubSeq(s, 1, Len(s) - 1), c) ELSE s
Strip(s) == RStripChar(LStrip(s), " ")
\* str.replace(sub, "")
RECURSIVE RemoveAll(_, _)
RemoveAll(s, sub) ==
  IF Len(s) < Len(sub) THEN s
  ELSE IF StartsWith(s, sub) THEN RemoveAll(SubSeq(s, Len(sub) + 1, Len(s)), sub)
  ELSE <<Head(s)>> \o RemoveAll(Tail(s), sub)

\* the titles of the model that dateutil parses as a date ("May 5")
DateTexts == {<<"m", "a", "y", " ", "5">>}
\* utils.is_valid_rfp
is_valid_rfp(title, description, client_name) ==
  IF title = NoText \/ title = <<>> THEN FALSE
  ELSE LET title_lower == Strip(Lower(title))
           desc_lower == Lower(OrElse(description, <<>>))
           client_lower == Lower(OrElse(client_name, <<>>))
           combined_text == title_lower \o <<" ">> \o desc_lower
       IN /\ title_lower \notin GENERIC_TITLES
          /\ Len(title_lower) >= 5
          /\ \A term \in INVALID_CONTENT_TERMS : ~Contains(term, combined_text)
          /\ ~(/\ Contains(<<"l", "i", "b", "r", "a", "r", "y">>, client_lower)
               /\ (Contains(<<"b", "r", "i", "d", "g", "e">>, title_lower) \/ Contains(<<"h", "i", "g", "h", "w", "a", "y">>, title_lower)))
          /\ ~(Len(title_lower) < 20 /\ title_lower \in DateTexts)

\* clean_text(text, title_case=False): blanks are normalized, the case is kept
clean_text_plain(text) == IF text = NoText \/ text = <<>> THEN <<>> ELSE JoinSplit(text)
\* clean_text(raw) for a field that may be None
clean_field(text) == IF text = NoText THEN <<>> ELSE clean_text(text)

\* is_file_url(url): the URL points to a file download
FileExtensions == {<<".", "p", "d", "f">>, <<".", "d", "o", "c">>, <<".", "d", "o", "c", "x">>, <<".", "x", "l", "s">>, <<".", "x", "l", "s", "x">>, <<".", "z", "i", "p">>}
is_file_url(url) == url # NoText /\ \E ext \in FileExtensions : EndsWith(Lower(url), ext)

\* DatabaseHandler.url_already_scraped on the table `rows`; LIKE compares
\* without regard to case (the URLs of the model hold no LIKE wildcard)
url_already_scraped(rows, url) ==
  IF url = NoText \/ url = <<>> THEN FALSE
  ELSE LET clean_url == RStripChar(RemoveAll(RemoveAll(RemoveAll(url, <<"h", "t", "t", "p", "s", ":", "/", "/">>), <<"h", "t", "t", "p", ":", "/", "/">>), <<"w", "w", "w", ".">>), "/")
       IN \E i \in DOMAIN rows : Contains(Lower(clean_url), Lower(rows[i].source_url))

\* ", ".join(trades)
RECURSIVE JoinComma(_)
JoinComma(trades) ==
  IF trades = <<>> THEN <<>>
  ELSE IF Len(trades) = 1 THEN trades[1]
  ELSE trades[1] \o <<",", " ">> \o JoinComma(Tail(trades))

(***************************************************************************)
(* Part 5: the orchestrator (rfp_scraper/tasks.py run_scraping_task and    *)
(* scrapers/hierarchical.py HierarchicalScraper.scrape).  One job runs the *)
(* task over a list of jurisdictions.  What the web, the site adapters,    *)
(* the classifier and the generative extractor answer is chosen at each    *)
(* step from the sets below.                                               *)
(***************************************************************************)
MaxStates == 2        \* jurisdictions in states_to_scrape
MaxRows == 2          \* records a site adapter returns
MaxBids == 2          \* candidates the generative extractor returns for a page
BufferDays == 2       \* is_future_deadline(deadline, buffer_days=2)

JobStates == {"Connecticut", "Texas", "Guam"}
AdapterStates == {"Connecticut", "Texas"}          \* ScraperFactory._scrapers
Agency(organization_name, url) == [organization_name |-> organization_name, url |-> url]
\* get_agencies_by_state for the states of table states
AgenciesOf == [s \in JobStates |->
  IF s = "Connecticut"
  THEN <<Agency(<<"D", "a", "s">>, <<"h", "t", "t", "p", "s", ":", "/", "/", "a", ".", "g", "o", "v", "/">>), Agency(<<"P", "l", "a", "n", "s">>, <<"h", "t", "t", "p", "s", ":", "/", "/", "a", ".", "g", "o", "v", "/", "f", ".", "p", "d", "f">>)>>
  ELSE <<>>]
StateLists ==
  {ss \in UNION {[1..n -> JobStates] : n \in 1..MaxStates} :
     \A a, b \in DOMAIN ss : ss[a] = ss[b] => a = b}

\* records of a site adapter: title, link, client, deadline (a kind of string, days ahead)
Row(title, link, client, kind, ahead) ==
  [title |-> title, link |-> link, client |-> client, kind |-> kind, ahead |-> ahead]
L1Pool == <<
  Row(<<"p", "a", "v", "e", " ", " ", "r", "o", "a", "d">>, <<"h", "t", "t", "p", "s", ":", "/", "/", "w", "w", "w", ".", "a", ".", "g", "o", "v", "/", "1">>, <<"c", "i", "t", "y", " ", "x">>, "iso", BufferDays),
  Row(<<"t", "a", "x", " ", "o", "f", "f", "i", "c", "e">>, <<"h", "t", "t", "p", "s", ":", "/", "/", "b", ".", "g", "o", "v", "/", "2">>, <<"c", "i", "t", "y", " ", "x">>, "iso", BufferDays),
  Row(<<"s", "e", "w", "e", "r", "s">>, <<"h", "t", "t", "p", "s", ":", "/", "/", "b", ".", "g", "o", "v", "/", "e", "v", "e", "n", "t">>, NoText, "us", BufferDays),
  Row(<<"s", "e", "w", "e", "r", "s">>, <<"h", "t", "t", "p", "s", ":", "/", "/", "b", ".", "g", "o", "v", "/", "4">>, NoText, "text", 0),
  Row(<<"s", "e", "w", "e", "r", "s">>, <<"h", "t", "t", "p", "s", ":", "/", "/", "b", ".", "g", "o", "v", "/", "4">>, NoText, "none", 0),
  Row(<<"s", "e", "w", "e", "r", "s">>, <<"h", "t", "t", "p", "s", ":", "/", "/", "b", ".", "g", "o", "v", "/", "4">>, NoText, "iso", BufferDays - 1),
  Row(NoText, <<"h", "t", "t", "p", "s", ":", "/", "/", "b", ".", "g", "o", "v", "/", "7">>, <<"c", "i", "t", "y", " ", "x">>, "iso", BufferDays),
  Row(<<"m", "a", "y", " ", "5">>, <<"h", "t", "t", "p", "s", ":", "/", "/", "b", ".", "g", "o", "v", "/", "8">>, <<"c", "i", "t", "y", " ", "x">>, "iso", BufferDays),
  Row(<<"b", "r", "i", "d", "g", "e">>, <<"h", "t", "t", "p", "s", ":", "/", "/", "b", ".", "g", "o", "v", "/", "9">>, <<"x", " ", "l", "i", "b", "r", "a", "r", "y">>, "iso", BufferDays) >>
L1Pages == {"ok", "broken", "raises"}       \* page.goto and page.evaluate for the link
Bodies == <<<<"n", "e", "w", " ", " ", "p", "a", "v", "i", "n", "g">>, <<"j", "a", "n", "i", "t", "o", "r", "i", "a", "l">>>>     \* document.body.innerText
TradeLists == <<<<>>, <<<<"0", "3">>, <<"0", "9">>>>>>    \* what classify_csi_divisions returns
\* candidates of the generative extractor: title, clientName, deadline, description
Bid(title, clientName, kind, ahead, description) ==
  [title |-> title, clientName |-> clientName, kind |-> kind, ahead |-> ahead,
   description |-> description]
L2Pool == <<
  Bid(<<"b", "r", "i", "d", "g", "e", " ", "f", "i", "x">>, NoText, "iso", BufferDays, <<"d", "e", "c", "k", " ", " ", "w", "o", "r", "k">>),
  Bid(<<"t", "a", "x", " ", "o", "f", "f", "i", "c", "e">>, <<"c", "i", "t", "y", " ", "y">>, "monthday", BufferDays + 1, <<"r", "o", "o", "f">>),
  Bid(<<"b", "r", "i", "d", "g", "e", " ", "f", "i", "x">>, NoText, "none", 0, <<"d", "e", "c", "k">>),
  Bid(<<"b", "r", "i", "d", "g", "e", " ", "f", "i", "x">>, NoText, "badday", 0, <<"d", "e", "c", "k">>),
  Bid(<<"b", "r", "i", "d", "g", "e", " ", "f", "i", "x">>, NoText, "iso", BufferDays - 1, <<"d", "e", "c", "k">>),
  Bid(NoText, NoText, "iso", BufferDays, <<"d", "e", "c", "k">>),
  Bid(<<"c", "l", "e", "a", "n", "i", "n", "g">>, NoText, "iso", BufferDays, NoText) >>
\* what the web and the classifier answer for one record: the page of the link
\* fails, or it has a text and the classifier returns a list of trades
L1Answers == {<<page, 1, 1>> : page \in {"broken", "raises"}} \cup
             {<<"ok", b, t>> : b \in DOMAIN Bodies, t \in DOMAIN TradeLists}
\* the dates on which the orchestrator runs in the model
ScrapeDays == {Date(2025, 2, 27)}
AgencyOutcomes == {"db_error", "robots_deny", "captcha_timeout", "crash", "short",
                   "ai_raises", "no_bids", "bids"}

\* an entry of results
Item(title, client, deadline, link, rfp_description, matching_trades, source_type) ==
  [title |-> title, client |-> client, deadline |-> deadline, link |-> link,
   rfp_description |-> rfp_description, matching_trades |-> matching_trades,
   source_type |-> source_type, SourceState |-> None]

\* Level 1, one record of the adapter (hierarchical.py 151-247): why it is skipped, or "accepted"
Level1VerdictAnyDeadline(row, page, body, trades, state_name, now) ==
  LET raw_title == OrElse(row.title, <<"U", "n", "t", "i", "t", "l", "e", "d">>)
      raw_link == OrElse(row.link, <<>>)
      title == clean_text(raw_title)
      client == clean_text(OrElse(row.client, <<"U", "n", "k", "n", "o", "w", "n", " ", "C", "l", "i", "e", "n", "t">>))
  IN IF ~should_visit_url(raw_link, raw_title) THEN "blocked"
     ELSE IF state_name = None \/ state_name = "Unknown" THEN "state"
     ELSE IF ~is_valid_rfp(title, <<>>, client) THEN "invalid"
     ELSE IF raw_link = <<>> THEN "nolink"
     ELSE IF page = "broken" THEN "broken"
     ELSE IF page = "raises" THEN "error"
     ELSE IF ~is_valid_rfp(title, clean_text_plain(body), client) THEN "invalid_content"
     ELSE IF trades = <<>> THEN "no_trades"
     ELSE "accepted"
Level1Verdict(row, page, body, trades, state_name, now) ==
  LET raw_title == OrElse(row.title, <<"U", "n", "t", "i", "t", "l", "e", "d">>)
      raw_link == OrElse(row.link, <<>>)
      title == clean_text(raw_title)
      client == clean_text(OrElse(row.client, <<"U", "n", "k", "n", "o", "w", "n", " ", "C", "l", "i", "e", "n", "t">>))
      deadline == normalize_date(MakeDeadline(row.kind, row.ahead, now), now)
  IN IF ~should_visit_url(raw_link, raw_title) THEN "blocked"
     ELSE IF state_name = None \/ state_name = "Unknown" THEN "state"
     ELSE IF ~is_future_deadline(deadline, BufferDays, now) THEN "deadline"
     ELSE IF ~is_valid_rfp(title, <<>>, client) THEN "invalid"
     ELSE IF raw_link = <<>> THEN "nolink"
     ELSE IF page = "broken" THEN "broken"
     ELSE IF page = "raises" THEN "error"
     ELSE IF ~is_valid_rfp(title, clean_text_plain(body), client) THEN "invalid_content"
     ELSE IF trades = <<>> THEN "no_trades"
     ELSE "accepted"
\* the row appended to results and persisted when the record is accepted
Level1Item(row, body, trades, now) ==
  Item(clean_text(OrElse(row.title, <<"U", "n", "t", "i", "t", "l", "e", "d">>)),
       clean_text(OrElse(row.client, <<"U", "n", "k", "n", "o", "w", "n", " ", "C", "l", "i", "e", "n", "t">>)),
       normalize_date(MakeDeadline(row.kind, row.ahead, now), now),
       OrElse(row.link, <<>>), clean_text_plain(body), JoinComma(trades), "Standard")

\* Level 2, one candidate of the extractor (hierarchical.py 343-398)
Level2VerdictAnyTrades(bid, agency, trades, state_name, now) ==
  LET description == clean_text_plain(bid.description)
      title == clean_field(bid.title)
      client == clean_text(OrElse(bid.clientName, agency.organization_name))
      deadline == normalize_date(MakeDeadline(bid.kind, bid.ahead, now), now)
  IN IF state_name = None \/ state_name = "Unknown" THEN "state"
     ELSE IF ~is_future_deadline(deadline, BufferDays, now) THEN "deadline"
     ELSE IF ~is_valid_rfp(title, description, client) THEN "invalid"
     ELSE "accepted"
Level2Verdict(bid, agency, trades, state_name, now) ==
  LET description == clean_text_plain(bid.description)
      title == clean_field(bid.title)
      client == clean_text(OrElse(bid.clientName, agency.organization_name))
      deadline == normalize_date(MakeDeadline(bid.kind, bid.ahead, now), now)
  IN IF state_name = None \/ state_name = "Unknown" THEN "state"
     ELSE IF ~is_future_deadline(deadline, BufferDays, now) THEN "deadline"
     ELSE IF ~is_valid_rfp(title, description, client) THEN "invalid"
     ELSE IF trades = <<>> THEN "no_trades"
     ELSE "accepted"
Level2Item(bid, agency, trades, now) ==
  Item(clean_field(bid.title),
       clean_text(OrElse(bid.clientName, agency.organization_name)),
       normalize_date(MakeDeadline(bid.kind, bid.ahead, now), now),
       agency.url, clean_text_plain(bid.description), JoinComma(trades), "Deep Scan")

\* the verdicts and items of all records, pages, texts and trade lists of the
\* model: Level1Verdict, Level1Item, Level2Verdict and Level2Item tabulated
Level1Verdicts ==
  [n \in DOMAIN L1Pool, page \in L1Pages, b \in DOMAIN Bodies, t \in DOMAIN TradeLists,
   s \in JobStates, now \in ScrapeDays |->
     Level1Verdict(L1Pool[n], page, Bodies[b], TradeLists[t], s, now)]
Level1Items ==
  [n \in DOMAIN L1Pool, b \in DOMAIN Bodies, t \in DOMAIN TradeLists, now \in ScrapeDays |->
     Level1Item(L1Pool[n], Bodies[b], TradeLists[t], now)]
AgencyIndexes == UNION {DOMAIN AgenciesOf[s] : s \in JobStates}
Level2Verdicts ==
  [n \in DOMAIN L2Pool, s \in JobStates, k \in AgencyIndexes, t \in DOMAIN TradeLists, now \in ScrapeDays |->
     IF k \in DOMAIN AgenciesOf[s]
     THEN Level2Verdict(L2Pool[n], AgenciesOf[s][k], TradeLists[t], s, now) ELSE "none"]
Level2Items ==
  [n \in DOMAIN L2Pool, s \in JobStates, k \in AgencyIndexes, t \in DOMAIN TradeLists, now \in ScrapeDays |->
     IF k \in DOMAIN AgenciesOf[s]
     THEN Level2Item(L2Pool[n], AgenciesOf[s][k], TradeLists[t], now)
     ELSE Item(<<>>, <<>>, NoneStr, <<>>, <<>>, <<>>, "none")]

\* db.insert_bid(slug, client, title, deadline, link, state=..., ...) of an accepted item
Persist(rows, it, state_name, now) ==
  insert_bid(rows, generate_slug(it.title, it.client, it.link), it.client, it.title,
             it.deadline, it.link, state_name, it.rfp_description, it.matching_trades, now)

ScrIdle == [pc |-> "idle", results |-> <<>>, nrows |-> 0, k |-> 0, nbids |-> 0,
            last |-> [level |-> 0, verdict |-> "none", kind |-> "none"]]
NoObs == [returned |-> {}, threw |-> {}]
ScrapeIdle ==
  /\ task = [pc |-> "idle", states |-> <<>>, i |-> 0, all_results |-> <<>>, fatal |-> None]
  /\ scr = ScrIdle
  /\ obs = NoObs

\* app.py: job_manager.start_job(run_scraping_task, ...) has stored the job and
\* started its worker; the store is empty and the clock shows a day before the
\* end of February
ScrapeInit ==
  /\ jobs = <<[new_job EXCEPT !.thread = TRUE]>>
  /\ lock = Free
  /\ wpc = [j \in JobIds |-> IF j = 1 THEN "work" ELSE "unstarted"]
  /\ wout = [j \in JobIds |-> None]
  /\ ret = [c \in Clients |-> NoRet]
  /\ ncalls = 0
  /\ today \in ScrapeDays
  /\ PureIdle
  /\ StoreIdle
  /\ task \in {[pc |-> "init", states |-> ss, i |-> 0, all_results |-> <<>>, fatal |-> None] :
                 ss \in StateLists}
  /\ scr = ScrIdle
  /\ obs = NoObs

CurrentState == task.states[task.i]
\* tasks.py 132-134: the error is logged and raised again into job_wrapper
Critical(js, t, call) ==
  /\ jobs' = add_log(js, 1, "critical")
  /\ task' = [t EXCEPT !.pc = "raise", !.fatal = call]
\* a variant of the handler of tasks.py 123 that lets the error of one jurisdiction escape
on_scrape_error_escapes(t) == [t EXCEPT !.pc = "raise"]
\* tasks.py 123-128: the error of one jurisdiction is logged and its context closed
on_scrape_error(t) == [t EXCEPT !.pc = "close"]

\* tasks.py 42-64: progress 0.0 and the browser launch
TaskStart(launch_ok) ==
  /\ task.pc = "init"
  /\ IF launch_ok
     THEN /\ jobs' = add_log(update_progress(jobs, 1, 0, "initializing"), 1, "launched")
          /\ task' = [task EXCEPT !.pc = "state", !.i = 1]
     ELSE Critical(update_progress(jobs, 1, 0, "initializing"), task, "launch")
  /\ UNCHANGED <<bids, ninserts, scr, obs>>
  /\ UNCHANGED scrapeRest

\* tasks.py 66-108: progress i/total, the new browser context, the adapter of the state
BeginState(context_ok) ==
  /\ task.pc = "state"
  /\ LET progressed == update_progress(jobs, 1,
                         ((task.i - 1) * ProgressOne) \div Len(task.states), "scraping")
     IN IF ~context_ok
        THEN Critical(progressed, task, "new_context") /\ scr' = scr
        ELSE IF CurrentState \notin AdapterStates
        THEN /\ jobs' = add_log(progressed, 1, "error")
             /\ task' = on_scrape_error(task)
             /\ scr' = scr
        ELSE /\ jobs' = progressed
             /\ task' = [task EXCEPT !.pc = "scrape"]
             /\ scr' = [ScrIdle EXCEPT !.pc = "l1"]
  /\ UNCHANGED <<bids, ninserts, obs>>
  /\ UNCHANGED scrapeRest

\* hierarchical.py 252-271: after Level 1 the deep scan starts if the state has agencies
AfterLevel1(s) ==
  IF AgenciesOf[CurrentState] # <<>> THEN [s EXCEPT !.pc = "agency", !.k = 1]
  ELSE [s EXCEPT !.pc = "return"]
\* a variant in which the standard scraper is run again after the last agency
NextAgencyThenLevel1(s) ==
  IF s.k < Len(AgenciesOf[CurrentState]) THEN [s EXCEPT !.pc = "agency", !.k = s.k + 1]
  ELSE [s EXCEPT !.pc = "l1"]
\* the for loop of hierarchical.py 273 advances
NextAgency(s) ==
  IF s.k < Len(AgenciesOf[CurrentState]) THEN [s EXCEPT !.pc = "agency", !.k = s.k + 1]
  ELSE [s EXCEPT !.pc = "return"]
Seen(s, level, verdict, kind) ==
  [s EXCEPT !.last = [level |-> level, verdict |-> verdict, kind |-> kind]]
Accept(it) ==
  /\ bids' = Persist(bids, it, CurrentState, today)
  /\ ninserts' = ninserts + 1
  /\ obs' = obs

\* hierarchical.py 151-247: one record of the adapter goes through the pipeline
L1Row(n, page, b, t) ==
  /\ task.pc = "scrape" /\ scr.pc = "l1"
  /\ scr.nrows < MaxRows
  /\ LET verdict == Level1Verdicts[n, page, b, t, CurrentState, today]
         it == Level1Items[n, b, t, today]
     IN IF verdict = "accepted"
        THEN /\ Accept(it)
             /\ scr' = [Seen(scr, 1, verdict, L1Pool[n].kind) EXCEPT !.nrows = @ + 1,
                                                                      !.results = Append(@, it)]
        ELSE /\ scr' = [Seen(scr, 1, verdict, L1Pool[n].kind) EXCEPT !.nrows = @ + 1]
             /\ UNCHANGED <<bids, ninserts, obs>>
  /\ UNCHANGED <<jobs, task>>
  /\ UNCHANGED scrapeRest

\* hierarchical.py 143, 249-250: the adapter raised; Level 1 ends
L1Raises ==
  /\ task.pc = "scrape" /\ scr.pc = "l1"
  /\ scr.nrows = 0
  /\ scr' = AfterLevel1(Seen(scr, 1, "raised", "none"))
  /\ UNCHANGED <<jobs, task, bids, ninserts, obs>>
  /\ UNCHANGED scrapeRest

\* hierarchical.py 153-191, 214-247, 249-250: a statement of the loop body
\* outside the try of the link verification raises for one record (cleaning a
\* field that is not a string, joining trades that are not strings, opening
\* the store); the handler of Level 1 catches it and the loop is left
L1RowRaises(n) ==
  /\ task.pc = "scrape" /\ scr.pc = "l1"
  /\ scr.nrows < MaxRows
  /\ scr' = AfterLevel1([Seen(scr, 1, "raised", L1Pool[n].kind) EXCEPT !.nrows = @ + 1])
  /\ UNCHANGED <<jobs, task, bids, ninserts, obs>>
  /\ UNCHANGED scrapeRest

\* the records of the adapter are exhausted
L1Done ==
  /\ task.pc = "scrape" /\ scr.pc = "l1"
  /\ scr' = AfterLevel1(scr)
  /\ UNCHANGED <<jobs, task, bids, ninserts, obs>>
  /\ UNCHANGED scrapeRest

\* hierarchical.py 273-341, 399-413: one agency, up to the answer of the extractor
L2Agency(outcome) ==
  /\ task.pc = "scrape" /\ scr.pc = "agency"
  /\ LET agency == AgenciesOf[CurrentState][scr.k]
     IN IF outcome = "db_error"
        THEN scr' = [Seen(scr, 2, outcome, "none") EXCEPT !.pc = "raised"] /\ obs' = obs
        ELSE IF url_already_scraped(bids, agency.url)
        THEN scr' = NextAgency(Seen(scr, 2, "dedup", "none")) /\ obs' = obs
        ELSE IF is_file_url(agency.url)
        THEN scr' = NextAgency(Seen(scr, 2, "file", "none")) /\ obs' = obs
        ELSE IF outcome \in {"crash", "ai_raises"}
        THEN /\ scr' = NextAgency(Seen(scr, 2, outcome, "none"))
             /\ obs' = [obs EXCEPT !.threw = @ \cup {CurrentState}]
        ELSE IF outcome = "bids"
        THEN scr' = [Seen(scr, 2, outcome, "none") EXCEPT !.pc = "bids", !.nbids = 0] /\ obs' = obs
        ELSE scr' = NextAgency(Seen(scr, 2, outcome, "none")) /\ obs' = obs
  /\ UNCHANGED <<jobs, task, bids, ninserts>>
  /\ UNCHANGED scrapeRest

\* hierarchical.py 343-398: one candidate of the extractor goes through the pipeline
L2Bid(n, t) ==
  /\ task.pc = "scrape" /\ scr.pc = "bids"
  /\ scr.nbids < MaxBids
  /\ LET verdict == Level2Verdicts[n, CurrentState, scr.k, t, today]
         it == Level2Items[n, CurrentState, scr.k, t, today]
     IN IF verdict = "accepted"
        THEN /\ Accept(it)
             /\ scr' = [Seen(scr, 2, verdict, L2Pool[n].kind) EXCEPT !.nbids = @ + 1,
                                                                      !.results = Append(@, it)]
        ELSE /\ scr' = [Seen(scr, 2, verdict, L2Pool[n].kind) EXCEPT !.nbids = @ + 1]
             /\ UNCHANGED <<bids, ninserts, obs>>
  /\ UNCHANGED <<jobs, task>>
  /\ UNCHANGED scrapeRest

\* hierarchical.py 402-405: the loop over the candidates raised; the agency is given up
L2BidRaises ==
  /\ task.pc = "scrape" /\ scr.pc = "bids"
  /\ scr' = NextAgency(Seen(scr, 2, "ai_raises", "none"))
  /\ obs' = [obs EXCEPT !.threw = @ \cup {CurrentState}]
  /\ UNCHANGED <<jobs, task, bids, ninserts>>
  /\ UNCHANGED scrapeRest

\* the candidates of the page are exhausted
L2BidsDone ==
  /\ task.pc = "scrape" /\ scr.pc = "bids"
  /\ scr' = NextAgency(scr)
  /\ UNCHANGED <<jobs, task, bids, ninserts, obs>>
  /\ UNCHANGED scrapeRest

WithSourceState(results, s) == [n \in DOMAIN results |-> [results[n] EXCEPT !.SourceState = s]]
\* tasks.py 111-121: scrape returned its DataFrame, which is appended to
\* all_results when it is not empty; the page is closed
ScrapeReturns ==
  /\ task.pc = "scrape" /\ scr.pc = "return"
  /\ jobs' = IF scr.results # <<>> THEN add_log(jobs, 1, "found") ELSE add_log(jobs, 1, "none")
  /\ task' = [task EXCEPT !.pc = "close",
                          !.all_results = @ \o WithSourceState(scr.results, CurrentState)]
  /\ obs' = [obs EXCEPT !.returned = @ \cup {CurrentState}]
  /\ scr' = ScrIdle
  /\ UNCHANGED <<bids, ninserts>>
  /\ UNCHANGED scrapeRest

\* tasks.py 123-124: scrape raised
ScrapeRaised ==
  /\ task.pc = "scrape" /\ scr.pc = "raised"
  /\ jobs' = add_log(jobs, 1, "error")
  /\ task' = on_scrape_error(task)
  /\ scr' = ScrIdle
  /\ UNCHANGED <<bids, ninserts, obs>>
  /\ UNCHANGED scrapeRest

\* tasks.py 126-128: context.close(), then the next state
EndState(context_closed) ==
  /\ task.pc = "close"
  /\ IF ~context_closed THEN Critical(jobs, task, "context_close")
     ELSE /\ jobs' = jobs
          /\ task' = IF task.i < Len(task.states) THEN [task EXCEPT !.pc = "state", !.i = @ + 1]
                     ELSE [task EXCEPT !.pc = "closing"]
  /\ UNCHANGED <<bids, ninserts, scr, obs>>
  /\ UNCHANGED scrapeRest

\* tasks.py 130-137: browser.close(), progress 1.0
TaskFinish(browser_closed) ==
  /\ task.pc = "closing"
  /\ IF ~browser_closed THEN Critical(jobs, task, "browser_close")
     ELSE /\ jobs' = update_progress(jobs, 1, ProgressOne, "complete")
          /\ task' = [task EXCEPT !.pc = "return"]
  /\ UNCHANGED <<bids, ninserts, scr, obs>>
  /\ UNCHANGED scrapeRest

\* run_scraping_task returns all_results to job_wrapper, or raises into it
TaskReturn == task.pc = "return" /\ WorkReturns(1, task.all_results)
TaskRaise == task.pc = "raise" /\ WorkRaises(1, task.fatal)

ScrapeNext ==
  \/ \E ok \in BOOLEAN : TaskStart(ok)
  \/ \E ok \in BOOLEAN : BeginState(ok)
  \/ \E n \in DOMAIN L1Pool, a \in L1Answers : L1Row(n, a[1], a[2], a[3])
  \/ L1Raises
  \/ \E n \in DOMAIN L1Pool : L1RowRaises(n)
  \/ L1Done
  \/ \E outcome \in AgencyOutcomes : L2Agency(outcome)
  \/ \E n \in DOMAIN L2Pool, t \in DOMAIN TradeLists : L2Bid(n, t)
  \/ L2BidRaises
  \/ L2BidsDone
  \/ ScrapeReturns
  \/ ScrapeRaised
  \/ \E ok \in BOOLEAN : EndState(ok)
  \/ \E ok \in BOOLEAN : TaskFinish(ok)
  \/ TaskReturn
  \/ TaskRaise
  \/ Complete
  \/ CompletedLogAcquire(1)
  \/ CompletedLog
  \/ Fail

(***************************************************************************)
(* Part 6: the agency table and the registry reconciler                    *)
(* (rfp_scraper/db.py, rfp_scraper/cisa_manager.py).  A row of the agency  *)
(* table carries, besides its columns, a history field `origin`: who wrote *)
(* its url last ("seed", "reconciler", "lookup" in the registry by the     *)
(* discovery, or "guess"), and `reconciled`: the reconciler wrote its url  *)
(* at some time.                                                           *)
(***************************************************************************)
MaxRecords == 2        \* records of the registry snapshot

NoId == 0              \* local_jurisdiction_id IS NULL; ids start at 1
StateId == 1           \* the id of the state that is synced
AgencyRow(id, state_id, organization_name, url, verified, category, local_jurisdiction_id, origin) ==
  [id |-> id, state_id |-> state_id, organization_name |-> organization_name, url |-> url,
   verified |-> verified, category |-> category,
   local_jurisdiction_id |-> local_jurisdiction_id, origin |-> origin,
   reconciled |-> (origin = "reconciler")]
\* cursor.fetchone() found no row
NoAgency == AgencyRow(0, 0, NoText, NoText, 0, NoText, NoId, "none")
Least(S) == CHOOSE x \in S : \A y \in S : x <= y
\* the first row that a SELECT with the given WHERE clause returns
FirstRow(rows, matches) == IF matches = {} THEN NoAgency ELSE rows[Least(matches)]

\* str.strip(c) on both ends
RECURSIVE LStripChar(_, _)
LStripChar(s, c) == IF s # <<>> /\ Head(s) = c THEN LStripChar(Tail(s), c) ELSE s
StripChar(s, c) == RStripChar(LStripChar(s, c), c)
\* str.upper()
Upper(s) == [i \in DOMAIN s |-> UpperChar(s[i])]

\* DatabaseHandler.get_agency_by_jurisdiction
get_agency_by_jurisdiction(rows, state_id, category, local_jurisdiction_id) ==
  IF local_jurisdiction_id = NoId THEN NoAgency
  ELSE FirstRow(rows, {i \in DOMAIN rows : /\ rows[i].state_id = state_id
                                            /\ rows[i].category = category
                                            /\ rows[i].local_jurisdiction_id = local_jurisdiction_id})

\* DatabaseHandler.get_agency_by_name, called with a category
get_agency_by_name(rows, state_id, name, category) ==
  FirstRow(rows, {i \in DOMAIN rows : /\ rows[i].state_id = state_id
                                       /\ rows[i].organization_name = name
                                       /\ rows[i].category = category})

\* DatabaseHandler.update_agency_url: the url is replaced and verified set
update_agency_url(rows, agency_id, new_url, origin) ==
  [i \in DOMAIN rows |->
     IF rows[i].id = agency_id
     THEN [rows[i] EXCEPT !.url = new_url, !.verified = 1, !.origin = origin,
                          !.reconciled = (@ \/ origin = "reconciler")]
     ELSE rows[i]]

\* DatabaseHandler.update_agency_name
update_agency_name(rows, agency_id, new_name) ==
  [i \in DOMAIN rows |->
     IF rows[i].id = agency_id THEN [rows[i] EXCEPT !.organization_name = new_name] ELSE rows[i]]

\* DatabaseHandler.delete_agency
delete_agency(rows, agency_id) == SelectSeq(rows, LAMBDA r : r.id # agency_id)

\* DatabaseHandler._normalize_url
_normalize_url(url) ==
  IF url = NoText \/ url = <<>> THEN <<>>
  ELSE LET u0 == Lower(Strip(url))
           u1 == IF StartsWith(u0, <<"h", "t", "t", "p", "s", ":", "/", "/">>) THEN SubSeq(u0, 9, Len(u0))
                 ELSE IF StartsWith(u0, <<"h", "t", "t", "p", ":", "/", "/">>) THEN SubSeq(u0, 8, Len(u0))
                 ELSE u0
           u2 == IF StartsWith(u1, <<"w", "w", "w", ".">>) THEN SubSeq(u1, 5, Len(u1)) ELSE u1
       IN IF EndsWith(u2, <<"/">>) THEN SubSeq(u2, 1, Len(u2) - 1) ELSE u2

\* DatabaseHandler.agency_exists
agency_exists(rows, state_id, url, name, category, local_jurisdiction_id) ==
  IF url # NoText /\ url # <<>>
  THEN \E i \in DOMAIN rows :
         rows[i].state_id = state_id /\ _normalize_url(rows[i].url) = _normalize_url(url)
  ELSE IF name # NoText /\ name # <<>> /\ category # NoText /\ category # <<>>
  THEN \E i \in DOMAIN rows : /\ rows[i].state_id = state_id
                               /\ rows[i].organization_name = name
                               /\ rows[i].category = category
                               /\ rows[i].local_jurisdiction_id = local_jurisdiction_id
  ELSE FALSE

\* DatabaseHandler.add_agency on the table [rows, seq], seq being the last id
\* that AUTOINCREMENT gave out
add_agency(tbl, state_id, name, url, verified, category, local_jurisdiction_id, origin) ==
  LET stripped == IF url # NoText /\ url # <<>> THEN Strip(url) ELSE url
  IN IF agency_exists(tbl.rows, state_id, stripped, name, category, local_jurisdiction_id)
     THEN tbl
     ELSE [rows |-> Append(tbl.rows,
                      AgencyRow(tbl.seq + 1, state_id, name, stripped, IF verified THEN 1 ELSE 0,
                                category, local_jurisdiction_id, origin)),
           seq |-> tbl.seq + 1]

\* a record of the registry CSV as _load_data keeps it (State upper case, stripped)
Registry(Domain_name, Domain_type, Organization_name, Suborganization_name, City, State) ==
  [Domain_name |-> Domain_name, Domain_type |-> Domain_type,
   Organization_name |-> Organization_name, Suborganization_name |-> Suborganization_name,
   City |-> City, State |-> State]
\* the registry records of the model: two domains of one city, three domains
\* of one state department, a record without domain, a record of another
\* state, a town, and a record without names
RegistryPool == <<
  Registry(<<" ", "E", "l", "y", ".", "g", "o", "v">>, <<"C", "i", "t", "y">>, <<"C", "i", "t", "y", " ", "o", "f", " ", "E", "l", "y">>, <<>>, <<"E", "l", "y">>, <<"C", "T">>),
  Registry(<<"e", "l", "y", "p", "d", ".", "g", "o", "v">>, <<"C", "i", "t", "y">>, <<"E", "l", "y", " ", "P", "o", "l", "i", "c", "e">>, <<>>, <<"E", "l", "y">>, <<"C", "T">>),
  Registry(<<"d", "o", "t", ".", "g", "o", "v">>, <<"S", "t", "a", "t", "e">>, <<"D", "O", "T">>, <<>>, <<"A", "v", "o", "n">>, <<"C", "T">>),
  Registry(<<"w", "w", "w", ".", "d", "o", "t", ".", "g", "o", "v">>, <<"S", "t", "a", "t", "e">>, <<"D", "O", "T">>, <<>>, <<"A", "v", "o", "n">>, <<"C", "T">>),
  Registry(<<"c", "t", "d", "o", "t", ".", "g", "o", "v">>, <<"S", "t", "a", "t", "e">>, <<"D", "O", "T">>, <<>>, <<"A", "v", "o", "n">>, <<"C", "T">>),
  Registry(<<>>, <<"C", "i", "t", "y">>, <<"C", "i", "t", "y", " ", "o", "f", " ", "E", "l", "y">>, <<>>, <<"E", "l", "y">>, <<"C", "T">>),
  Registry(<<"e", "l", "y", ".", "g", "o", "v">>, <<"C", "i", "t", "y">>, <<"C", "i", "t", "y", " ", "o", "f", " ", "E", "l", "y">>, <<>>, <<"E", "l", "y">>, <<"N", "Y">>),
  Registry(<<"e", "l", "y", "c", "t", ".", "g", "o", "v">>, <<"L", "o", "c", "a", "l">>, <<"T", "o", "w", "n", " ", "o", "f", " ", "E", "l", "y">>, <<>>, <<"E", "l", "y">>, <<"C", "T">>),
  Registry(<<"x", ".", "g", "o", "v">>, <<"F", "e", "d", "e", "r", "a", "l">>, <<>>, <<>>, <<>>, <<"C", "T">>) >>
\* the snapshots: lists of pool indexes
Snapshots == UNION {[1..n -> DOMAIN RegistryPool] : n \in 1..MaxRecords}
StateAbbr == <<"c", "t", " ">>     \* the state_abbr argument

\* db.get_local_jurisdictions(state_id) of the synced state
LocalJurisdictions == <<[id |-> 1, name |-> <<"E", "l", "y">>, type |-> <<"t", "o", "w", "n">>],
                        [id |-> 2, name |-> <<"e", "l", "y", " ">>, type |-> <<"C", "i", "t", "y">>]>>
Greatest(S) == CHOOSE x \in S : \A y \in S : x >= y
\* lj_lookup[(name, type)]: a later row replaces an earlier one; NoId when the key is absent
lj_lookup(name, type) ==
  LET m == {i \in DOMAIN LocalJurisdictions :
              /\ Lower(Strip(LocalJurisdictions[i].name)) = name
              /\ Lower(Strip(LocalJurisdictions[i].type)) = type}
  IN IF m = {} THEN NoId ELSE LocalJurisdictions[Greatest(m)].id
\* lj_name_lookup[name]: the first row with the name
lj_name_lookup(name) ==
  LET m == {i \in DOMAIN LocalJurisdictions : Lower(Strip(LocalJurisdictions[i].name)) = name}
  IN IF m = {} THEN NoId ELSE LocalJurisdictions[Least(m)].id

\* cisa_manager.py 137-182: what the loop body derives from a registry row
registry_fields(row) ==
  LET domain == Lower(Strip(row.Domain_name))
      org1 == Strip(row.Organization_name)
      org2 == IF org1 = <<>> THEN Strip(row.Suborganization_name) ELSE org1
      org_name == IF org2 = <<>> THEN domain ELSE org2
      city_name == Strip(row.City)
      domain_type == Lower(Strip(row.Domain_type))
      base == IF Contains(<<"s", "t", "a", "t", "e">>, domain_type)
              THEN [category |-> <<"s", "t", "a", "t", "e", "_", "a", "g", "e", "n", "c", "y">>, jurisdiction_type |-> NoText]
              ELSE IF \E x \in {<<"l", "o", "c", "a", "l">>, <<"c", "i", "t", "y">>, <<"c", "o", "u", "n", "t", "y">>} : Contains(x, domain_type)
              THEN IF Contains(<<"c", "o", "u", "n", "t", "y">>, domain_type) \/ Contains(<<"c", "o", "u", "n", "t", "y">>, Lower(org_name))
                   THEN [category |-> <<"c", "o", "u", "n", "t", "y">>, jurisdiction_type |-> <<"c", "o", "u", "n", "t", "y">>]
                   ELSE IF Contains(<<"c", "i", "t", "y">>, domain_type) \/ Contains(<<"c", "i", "t", "y">>, Lower(org_name))
                   THEN [category |-> <<"c", "i", "t", "y">>, jurisdiction_type |-> <<"c", "i", "t", "y">>]
                   ELSE [category |-> <<"l", "o", "c", "a", "l">>, jurisdiction_type |-> NoText]
              ELSE [category |-> <<"s", "t", "a", "t", "e", "_", "a", "g", "e", "n", "c", "y">>, jurisdiction_type |-> NoText]
      cj == IF Contains(<<"t", "o", "w", "n", " ", "o", "f">>, Lower(org_name))
            THEN [category |-> <<"t", "o", "w", "n">>, jurisdiction_type |-> <<"t", "o", "w", "n">>]
            ELSE base
      local_jurisdiction_id ==
        IF cj.jurisdiction_type # NoText /\ city_name # <<>>
        THEN IF lj_lookup(Lower(city_name), cj.jurisdiction_type) # NoId
             THEN lj_lookup(Lower(city_name), cj.jurisdiction_type)
             ELSE lj_name_lookup(Lower(city_name))
        ELSE NoId
  IN [domain |-> domain, url |-> <<"h", "t", "t", "p", "s", ":", "/", "/">> \o domain, org_name |-> org_name,
      category |-> cj.category, local_jurisdiction_id |-> local_jurisdiction_id]
RegistryFields == [n \in DOMAIN RegistryPool |-> registry_fields(RegistryPool[n])]

\* CisaManager._urls_match
_urls_match(url1, url2) ==
  IF url1 = NoText \/ url1 = <<>> \/ url2 = NoText \/ url2 = <<>> THEN FALSE
  ELSE LET u(url) == StripChar(RemoveAll(RemoveAll(RemoveAll(Lower(url), <<"h", "t", "t", "p", "s", ":", "/", "/">>),
                                                   <<"h", "t", "t", "p", ":", "/", "/">>), <<"w", "w", "w", ".">>), "/")
       IN u(url1) = u(url2)

ZeroStats == [added |-> 0, updated |-> 0]
\* cisa_manager.py 136-245: the loop body for registry record n, on the table
\* tbl with the counters stats
sync_record(tbl, stats, n) ==
  LET f == RegistryFields[n]
      existing_agency == get_agency_by_jurisdiction(tbl.rows, StateId, f.category, f.local_jurisdiction_id)
      existing_by_name == get_agency_by_name(tbl.rows, StateId, f.org_name, f.category)
      updated(agency) ==
        IF ~_urls_match(agency.url, f.url)
        THEN [tbl |-> [tbl EXCEPT !.rows = update_agency_url(@, agency.id, f.url, "reconciler")],
              stats |-> [stats EXCEPT !.updated = @ + 1]]
        ELSE [tbl |-> tbl, stats |-> stats]
  IN IF f.domain = <<>> THEN [tbl |-> tbl, stats |-> stats]
     ELSE IF existing_agency # NoAgency THEN updated(existing_agency)
     ELSE IF f.local_jurisdiction_id = NoId /\ existing_by_name # NoAgency
     THEN updated(existing_by_name)
     ELSE IF ~agency_exists(tbl.rows, StateId, f.url, NoText, NoText, NoId)
     THEN [tbl |-> add_agency(tbl, StateId, f.org_name, f.url, TRUE, f.category,
                              f.local_jurisdiction_id, "reconciler"),
           stats |-> [stats EXCEPT !.added = @ + 1]]
     ELSE [tbl |-> tbl, stats |-> stats]

\* state_df = self._df[self._df['State'] == state_abbr]
state_df(df, state_abbr) ==
  SelectSeq(df, LAMBDA n : RegistryPool[n].State = Strip(Upper(state_abbr)))

\* the agency tables a reconciliation starts from: the empty table, a table
\* whose department has the registry's URL written with another scheme, a
\* table with a department without URL and an agency of another state, and a
\* table with an office that an earlier discovery found for a town
EmptyTable == [rows |-> <<>>, seq |-> 0]
InitialTables == {
  EmptyTable,
  [rows |-> <<AgencyRow(1, StateId, <<"D", "O", "T">>, <<"h", "t", "t", "p", ":", "/", "/", "w", "w", "w", ".", "d", "o", "t", ".", "g", "o", "v", "/">>, 0, <<"s", "t", "a", "t", "e", "_", "a", "g", "e", "n", "c", "y">>, NoId, "seed")>>,
   seq |-> 1],
  [rows |-> <<AgencyRow(1, StateId, <<"D", "O", "T">>, NoText, 0, <<"s", "t", "a", "t", "e", "_", "a", "g", "e", "n", "c", "y">>, NoId, "seed"),
              AgencyRow(2, 2, <<"C", "i", "t", "y", " ", "o", "f", " ", "E", "l", "y">>, <<"h", "t", "t", "p", "s", ":", "/", "/", "e", "l", "y", ".", "g", "o", "v">>, 1, <<"c", "i", "t", "y">>, NoId, "seed")>>,
   seq |-> 2],
  [rows |-> <<AgencyRow(1, StateId, <<"E", "l", "y", " ", "M", "a", "i", "n">>, <<"h", "t", "t", "p", "s", ":", "/", "/", "e", "l", "y", ".", "o", "r", "g">>, 1, <<"M", "a", "i", "n", " ", "O", "f", "f", "i", "c", "e">>, 1, "seed")>>,
   seq |-> 1] }

\* a table with a department of the town that has no URL yet
PendingTable ==
  [rows |-> <<AgencyRow(1, StateId, <<"E", "l", "y", " ", "P", "o", "l", "i", "c", "e">>, NoText, 0, <<"P", "o", "l", "i", "c", "e">>, 1, "seed")>>, seq |-> 1]

SyncIdle == [pc |-> "idle", run |-> 0, i |-> 0, loaded |-> FALSE, df |-> <<>>, state_df |-> <<>>,
             snapshot |-> <<>>, stats |-> ZeroStats,
             first_stats |-> ZeroStats, after_first |-> EmptyTable]
DiscIdle == [pc |-> "idle", snapshot |-> <<>>, tasks |-> <<>>, pending |-> <<>>, i |-> 0, steps |-> 0,
             downloads |-> 0,
             last |-> [op |-> "none", id |-> 0, alive |-> FALSE, origin |-> "none", lookup |-> FALSE]]
RegIdle == agencies = EmptyTable /\ sync = SyncIdle /\ disc = DiscIdle

\* update_platform.run_cisa_sync is about to call sync_state_database for the
\* state, and will be run a second time on the same registry snapshot
SyncInit ==
  /\ agencies \in InitialTables \cup {PendingTable}
  /\ sync \in {[SyncIdle EXCEPT !.pc = "start", !.run = 1, !.snapshot = s] : s \in Snapshots}
  /\ disc = DiscIdle

\* cisa_manager.py 100-133: _load_data downloads the registry once per manager
\* (an error leaves an empty frame), the state's records are selected
SyncStart(download_ok) ==
  /\ sync.pc = "start"
  /\ LET df == IF sync.loaded THEN sync.df ELSE IF download_ok THEN sync.snapshot ELSE <<>>
         sdf == state_df(df, StateAbbr)
     IN sync' = [sync EXCEPT !.loaded = TRUE, !.df = df, !.state_df = sdf,
                             !.stats = ZeroStats, !.i = 1,
                             !.pc = IF sdf = <<>> THEN "return" ELSE "loop"]
  /\ UNCHANGED agencies
  /\ UNCHANGED syncRest

\* cisa_manager.py 136-245: one registry record
SyncRecord ==
  /\ sync.pc = "loop"
  /\ LET r == sync_record(agencies, sync.stats, sync.state_df[sync.i])
     IN /\ agencies' = r.tbl
        /\ sync' = [sync EXCEPT !.stats = r.stats, !.i = @ + 1,
                                !.pc = IF sync.i = Len(sync.state_df) THEN "return" ELSE "loop"]
  /\ UNCHANGED syncRest

\* cisa_manager.py 247: return stats; the caller then syncs the same snapshot again
SyncReturn ==
  /\ sync.pc = "return"
  /\ sync' = IF sync.run = 1
             THEN [sync EXCEPT !.pc = "start", !.run = 2, !.first_stats = sync.stats,
                               !.after_first = agencies]
             ELSE [sync EXCEPT !.pc = "done"]
  /\ UNCHANGED agencies
  /\ UNCHANGED syncRest

SyncNext ==
  \/ \E ok \in BOOLEAN : SyncStart(ok)
  \/ SyncRecord
  \/ SyncReturn

(***************************************************************************)
(* Part 7: the discovery runs that follow a reconciliation                 *)
(* (rfp_scraper/discovery.py, tasks.py run_discovery_task,                 *)
(* update_platform.py sync_and_repair_agencies).  Whether the registry     *)
(* download succeeds, what the domain patterns and the search find and     *)
(* whether a stored URL answers are chosen at each step.  `disc.last`      *)
(* notes what the last step looked at: the agency, whether its stored URL  *)
(* answered, where the URL the step settled on came from, and whether the  *)
(* registry lookup of a local task returned a URL.  `disc.downloads`       *)
(* counts the downloads of the registry: the reconciler loads it into its  *)
(* CisaManager, and every discover_agency_url builds a CisaManager of its  *)
(* own (discovery.py 278), whose first lookup downloads it again.          *)
(***************************************************************************)
MaxSteps == 5          \* tasks and agencies the discovery runs handle after the reconciliation

\* the position of the first occurrence of sub in s, 0 when there is none
IndexOf(sub, s) ==
  LET m == {i \in 1..(Len(s) - Len(sub) + 1) : SubSeq(s, i, i + Len(sub) - 1) = sub}
  IN IF m = {} THEN 0 ELSE Least(m)
\* urllib.parse.urlparse: the netloc and the path of a URL (no query, no fragment)
urlparse(url) ==
  LET k == IndexOf(<<":", "/", "/">>, url)
      rest == SubSeq(url, k + 3, Len(url))
      j == IndexOf(<<"/">>, rest)
  IN IF k = 0 THEN [netloc |-> <<>>, path |-> url]
     ELSE IF j = 0 THEN [netloc |-> rest, path |-> <<>>]
     ELSE [netloc |-> SubSeq(rest, 1, j - 1), path |-> SubSeq(rest, j, Len(rest))]

\* discovery.is_root_domain
is_root_domain(url) ==
  IF url = NoText \/ url = <<>> THEN FALSE
  ELSE Lower(StripChar(urlparse(url).path, "/")) \in
         {<<>>, <<"i", "n", "d", "e", "x", ".", "h", "t", "m", "l">>, <<"i", "n", "d", "e", "x", ".", "p", "h", "p">>, <<"d", "e", "f", "a", "u", "l", "t", ".", "a", "s", "p", "x">>, <<"h", "o", "m", "e">>, <<"m", "a", "i", "n">>}

\* a variant of is_better_url that takes a new URL only for a stored URL that is dead
is_better_url_strict(new_url, old_url, old_reachable) ==
  new_url # NoText /\ new_url # <<>> /\ old_url # NoText /\ old_url # <<>> /\ ~old_reachable
\* a variant of is_better_url without the specificity guard
is_better_url_unguarded(new_url, old_url, old_reachable) ==
  IF new_url = NoText \/ new_url = <<>> THEN FALSE
  ELSE IF old_url = NoText \/ old_url = <<>> THEN TRUE
  ELSE IF ~old_reachable THEN TRUE
  ELSE Contains(<<".", "g", "o", "v">>, Lower(new_url)) /\ ~Contains(<<".", "g", "o", "v">>, Lower(old_url))
\* a variant of is_better_url without the specificity guard and the authority check
is_better_url_any(new_url, old_url, old_reachable) == new_url # NoText /\ new_url # <<>>
\* discovery.is_better_url; old_reachable is what check_url_reachability(old_url)
\* answers (FALSE also when it raises)
is_better_url(new_url, old_url, old_reachable) ==
  IF new_url = NoText \/ new_url = <<>> THEN FALSE
  ELSE IF old_url = NoText \/ old_url = <<>> THEN TRUE
  ELSE IF ~old_reachable THEN TRUE
  ELSE LET is_new_root == is_root_domain(new_url)
           is_old_deep == ~is_root_domain(old_url)
           new_domain == RemoveAll(urlparse(new_url).netloc, <<"w", "w", "w", ".">>)
           old_domain == RemoveAll(urlparse(old_url).netloc, <<"w", "w", "w", ".">>)
           different_domain == new_domain # old_domain
       IN IF is_new_root /\ (is_old_deep \/ different_domain) THEN FALSE
          ELSE Contains(<<".", "g", "o", "v">>, Lower(new_url)) /\ ~Contains(<<".", "g", "o", "v">>, Lower(old_url))

\* discovery.py 215-233: whether is_better_url gets to check_url_reachability(old_url)
is_better_url_checks(new_url, old_url) ==
  ~(new_url = NoText \/ new_url = <<>>) /\ ~(old_url = NoText \/ old_url = <<>>)

\* CisaManager.get_agency_url on the loaded frame df (a list of pool indexes)
get_agency_url(df, name, state_abbr) ==
  LET name_lower == Strip(Lower(name))
      sdf == state_df(df, state_abbr)
      org(n) == Strip(Lower(RegistryPool[n].Organization_name))
      first(m) == <<"h", "t", "t", "p", "s", ":", "/", "/">> \o RegistryPool[sdf[Least(m)]].Domain_name
      by_org == {i \in DOMAIN sdf : org(sdf[i]) = name_lower}
      by_city == {i \in DOMAIN sdf : Strip(Lower(RegistryPool[sdf[i]].City)) = name_lower}
      by_city_of == {i \in DOMAIN sdf : org(sdf[i]) = <<"c", "i", "t", "y", " ", "o", "f", " ">> \o name_lower}
  IN IF by_org # {} THEN first(by_org)
     ELSE IF by_city # {} THEN first(by_city)
     ELSE IF by_city_of # {} THEN first(by_city_of)
     ELSE NoText

\* what the domain patterns and the search find (or nothing): a root .gov
\* domain of its own or a page below the registry's domain; for a special
\* district, a domain of its own
GuessPool == {<<"h", "t", "t", "p", "s", ":", "/", "/", "w", "w", "w", ".", "e", "l", "y", "c", "t", ".", "g", "o", "v">>, <<"h", "t", "t", "p", "s", ":", "/", "/", "e", "l", "y", ".", "g", "o", "v", "/", "b", "i", "d", "s">>}
Guesses == GuessPool \cup {NoText}
IndependentGuesses == {<<"h", "t", "t", "p", "s", ":", "/", "/", "e", "l", "y", "h", "a", ".", "o", "r", "g">>, NoText}
Found(url, origin) == [url |-> url, origin |-> origin]
NotFound == Found(NoText, "none")
\* discovery.discover_agency_url: the registry first, then a verified guess
discover_agency_url(df, name, state_abbr, guess) ==
  IF get_agency_url(df, name, state_abbr) # NoText
  THEN Found(get_agency_url(df, name, state_abbr), "lookup")
  ELSE IF guess = NoText THEN NotFound ELSE Found(guess, "guess")

\* config_loader.SPECIAL_CATEGORIES
SPECIAL_CATEGORIES == {<<"S", "c", "h", "o", "o", "l", " ", "D", "i", "s", "t", "r", "i", "c", "t">>, <<"H", "o", "u", "s", "i", "n", "g", " ", "A", "u", "t", "h", "o", "r", "i", "t", "y">>, <<"P", "u", "b", "l", "i", "c", " ", "L", "i", "b", "r", "a", "r", "y">>, <<"T", "r", "a", "n", "s", "i", "t", " ", "A", "u", "t", "h", "o", "r", "i", "t", "y">>}
\* get_local_search_scope(juris_type) and extract_search_scope(template) for the templates of the model
LocalCategories == <<<<"M", "a", "i", "n", " ", "O", "f", "f", "i", "c", "e">>, <<"H", "o", "u", "s", "i", "n", "g", " ", "A", "u", "t", "h", "o", "r", "i", "t", "y">>>>
search_scope == <<<<"D", "O", "T">>>>
\* get_state_abbreviation(state_name) for the state with the given id
get_state_abbreviation(state_id) == IF state_id = StateId THEN <<"C", "T">> ELSE <<"N", "Y">>

\* tasks.py 155-195: the task list of run_discovery_task for the state
DiscoveryTask(phase, name, category, jurisdiction_id) ==
  [phase |-> phase, name |-> name, category |-> category, jurisdiction_id |-> jurisdiction_id]
DiscoveryTasks ==
  [n \in DOMAIN search_scope |->
     DiscoveryTask("standard", search_scope[n], <<"s", "t", "a", "t", "e", "_", "a", "g", "e", "n", "c", "y">>, NoId)] \o
  [n \in 1..(Len(LocalJurisdictions) * Len(LocalCategories)) |->
     LET lj == LocalJurisdictions[((n - 1) \div Len(LocalCategories)) + 1]
     IN DiscoveryTask("ai_native_local", lj.name,
                      LocalCategories[((n - 1) % Len(LocalCategories)) + 1], lj.id)]

Truthy(text) == text # NoText /\ text # <<>>
\* tasks.py 219-228: a standard agency of the state; found_url is what
\* DiscoveryEngine.find_agency_url returns
discover_standard(tbl, t, found_url) ==
  IF Truthy(found_url) /\ ~agency_exists(tbl.rows, StateId, found_url, NoText, NoText, NoId)
  THEN add_agency(tbl, StateId, t.name, found_url, TRUE, t.category, NoId, "guess")
  ELSE tbl

\* tasks.py 236-253: the URL the discovery settles on for a local task
final_url(t, df, guess, independent) ==
  IF t.category \in SPECIAL_CATEGORIES /\ Truthy(independent) THEN Found(independent, "guess")
  ELSE discover_agency_url(df, t.name, get_state_abbreviation(StateId), guess)

\* tasks.py 230-298: a local government task
discover_local(tbl, t, df, guess, independent, alive) ==
  LET final == final_url(t, df, guess, independent)
      display_name == t.name \o <<" ", "(">> \o get_state_abbreviation(StateId) \o <<")", " ">> \o t.category
      existing_agency == get_agency_by_jurisdiction(tbl.rows, StateId, t.category, t.jurisdiction_id)
      renamed == IF existing_agency.organization_name # display_name
                 THEN update_agency_name(tbl.rows, existing_agency.id, display_name)
                 ELSE tbl.rows
  IN IF existing_agency = NoAgency
     THEN IF Truthy(final.url)
             /\ ~agency_exists(tbl.rows, StateId, final.url, NoText, t.category, t.jurisdiction_id)
          THEN add_agency(tbl, StateId, display_name, final.url, TRUE, t.category,
                          t.jurisdiction_id, final.origin)
          ELSE tbl
     ELSE IF Truthy(final.url)
     THEN IF is_better_url(final.url, existing_agency.url, alive)
          THEN [tbl EXCEPT !.rows = update_agency_url(renamed, existing_agency.id, final.url, final.origin)]
          ELSE [tbl EXCEPT !.rows = renamed]
     ELSE IF Truthy(existing_agency.url) /\ ~alive
     THEN [tbl EXCEPT !.rows = delete_agency(renamed, existing_agency.id)]
     ELSE [tbl EXCEPT !.rows = renamed]

\* update_platform.py 222-225: re.match(r"^(.*?)\s\([A-Z]{2}\)\s(.*)$", name)
CleanName(name) ==
  LET m == {k \in 1..(Len(name) - 5) :
              /\ name[k] = " " /\ name[k + 1] = "(" /\ IsUpper(name[k + 2])
              /\ IsUpper(name[k + 3]) /\ name[k + 4] = ")" /\ name[k + 5] = " "}
  IN IF m = {} THEN name ELSE SubSeq(name, 1, Least(m) - 1)

\* update_platform.py 206-238: one agency of sync_and_repair_agencies
repair_new_url(row, df, guess) ==
  discover_agency_url(df, CleanName(row.organization_name), get_state_abbreviation(row.state_id), guess)
repair_row(tbl, row, df, guess, alive) ==
  IF Truthy(repair_new_url(row, df, guess).url)
     /\ is_better_url(repair_new_url(row, df, guess).url, row.url, alive)
  THEN [tbl EXCEPT !.rows = update_agency_url(@, row.id, repair_new_url(row, df, guess).url,
                                              repair_new_url(row, df, guess).origin)]
  ELSE tbl

\* sync_state_database as a whole: the loop over the records of the state
RECURSIVE sync_records(_, _, _)
sync_records(tbl, stats, recs) ==
  IF recs = <<>> THEN [tbl |-> tbl, stats |-> stats]
  ELSE sync_records(sync_record(tbl, stats, Head(recs)).tbl,
                    sync_record(tbl, stats, Head(recs)).stats, Tail(recs))
sync_state_database(tbl, df, state_abbr) == sync_records(tbl, ZeroStats, state_df(df, state_abbr))

\* the registry snapshots of the discovery runs: one city, and a department with a town
DiscSnapshots == {<<1>>, <<3, 8>>}
Seen2(op, id, alive, origin) ==
  [op |-> op, id |-> id, alive |-> alive, origin |-> origin, lookup |-> FALSE]

\* the reconciler is about to run; discovery runs follow
DiscInit ==
  /\ agencies \in InitialTables
  /\ disc \in {[DiscIdle EXCEPT !.pc = "sync", !.snapshot = s] : s \in DiscSnapshots}
  /\ sync = SyncIdle

\* update_platform.run_cisa_sync: the registry is merged into the table
RegistrySync(download_ok) ==
  /\ disc.pc = "sync"
  /\ agencies' = sync_state_database(agencies, IF download_ok THEN disc.snapshot ELSE <<>>,
                                     StateAbbr).tbl
  /\ disc' = [disc EXCEPT !.pc = "ready", !.last = Seen2("sync", 0, FALSE, "reconciler"),
                          !.downloads = @ + 1]
  /\ UNCHANGED discRest

\* tasks.py 143-201: run_discovery_task prepares its task list
StartDiscovery ==
  /\ disc.pc = "ready"
  /\ disc.steps < MaxSteps
  /\ disc' = [disc EXCEPT !.pc = "discover", !.tasks = DiscoveryTasks, !.i = 1]
  /\ UNCHANGED agencies
  /\ UNCHANGED discRest

\* tasks.py 203-300: one task of the list
DiscoverTask(download_ok, guess, independent, alive) ==
  /\ disc.pc = "discover"
  /\ disc.steps < MaxSteps
  /\ LET t == disc.tasks[disc.i]
         df == IF download_ok THEN disc.snapshot ELSE <<>>
         existing_agency == get_agency_by_jurisdiction(agencies.rows, StateId, t.category, t.jurisdiction_id)
     IN /\ agencies' = IF t.phase = "standard" THEN discover_standard(agencies, t, guess)
                       ELSE discover_local(agencies, t, df, guess, independent, alive)
        /\ disc' = [disc EXCEPT
                      !.i = @ + 1,
                      !.pc = IF disc.i = Len(disc.tasks) THEN "ready" ELSE "discover",
                      !.steps = @ + 1,
                      !.downloads = IF t.phase = "standard" THEN @ ELSE @ + 1,
                      !.last = IF t.phase = "standard" THEN Seen2("standard", 0, alive, "guess")
                               ELSE [Seen2("local", existing_agency.id, alive,
                                           final_url(t, df, guess, independent).origin)
                                       EXCEPT !.lookup = Truthy(get_agency_url(df, t.name, get_state_abbreviation(StateId)))]]
  /\ UNCHANGED discRest

\* update_platform.py 188-204: sync_and_repair_agencies reads all agencies (and
\* returns at once when there is none)
StartRepair ==
  /\ disc.pc = "ready"
  /\ disc.steps < MaxSteps
  /\ agencies.rows # <<>>
  /\ disc' = [disc EXCEPT !.pc = "repair", !.i = 1,
                          !.pending = [n \in DOMAIN agencies.rows |-> agencies.rows[n].id]]
  /\ UNCHANGED agencies
  /\ UNCHANGED discRest

\* update_platform.py 206-240: one agency; no other step writes its row
\* between the reading of the table and this step
RepairRow(download_ok, guess, alive) ==
  /\ disc.pc = "repair"
  /\ disc.steps < MaxSteps
  /\ LET row == CHOOSE r \in {agencies.rows[n] : n \in DOMAIN agencies.rows} : r.id = disc.pending[disc.i]
         df == IF download_ok THEN disc.snapshot ELSE <<>>
     IN /\ agencies' = repair_row(agencies, row, df, guess, alive)
        /\ disc' = [disc EXCEPT
                      !.i = @ + 1,
                      !.pc = IF disc.i = Len(disc.pending) THEN "ready" ELSE "repair",
                      !.steps = @ + 1,
                      !.downloads = @ + 1,
                      !.last = Seen2("repair", row.id, alive, repair_new_url(row, df, guess).origin)]
  /\ UNCHANGED discRest

DiscNext ==
  \/ \E ok \in BOOLEAN : RegistrySync(ok)
  \/ StartDiscovery
  \/ \E ok \in BOOLEAN, guess \in Guesses, independent \in IndependentGuesses, alive \in BOOLEAN :
       DiscoverTask(ok, guess, independent, alive)
  \/ StartRepair
  \/ \E ok \in BOOLEAN, guess \in Guesses, alive \in BOOLEAN : RepairRow(ok, guess, alive)

(***************************************************************************)
(* Part 8: the deep scan and the Compliance Gate                           *)
(* (rfp_scraper/compliance.py, scrapers/hierarchical.py 33-40, 273-413).   *)
(* Every HierarchicalScraper builds a ComplianceManager of its own in      *)
(* __init__; run_scraping_task builds a scraper for every jurisdiction of  *)
(* every job.  The scraper instances of the model scan the agencies of one *)
(* jurisdiction: two jobs started for it, at the same time or one after    *)
(* the other.  time.time() is the clock `web.now`, in seconds.  `web` also  *)
(* notes what the hosts saw: the navigations, what every gate was asked    *)
(* and answered, the downloads of robots.txt, and for every host the time  *)
(* of the last request a gate allowed and the gaps between such requests.  *)
(***************************************************************************)
MaxScanners == 2      \* scraper instances scanning the jurisdiction
MaxTime == 2          \* seconds the clock runs
MinDelay == 2         \* random.uniform(2, 5), its lower end
MaxDelay == 5         \* and its upper end

Scanners == 1..MaxScanners
Delays == {MinDelay, MaxDelay}
DeepState == "Connecticut"
\* get_agencies_by_state: the agencies on file
DeepAgencies == <<Agency(<<"D", "a", "s">>, <<"h", "t", "t", "p", "s", ":", "/", "/", "a", ".", "g", "o", "v", "/">>), Agency(<<"D", "o", "t">>, <<"h", "t", "t", "p", "s", ":", "/", "/", "a", ".", "g", "o", "v", "/", "d", "o", "t">>),
                  Agency(<<"P", "l", "a", "n", "s">>, <<"h", "t", "t", "p", "s", ":", "/", "/", "a", ".", "g", "o", "v", "/", "p", "l", "a", "n", "s", ".", "p", "d", "f">>)>>
\* what _find_better_url finds on the page of an agency
BetterUrls == {NoText, <<"h", "t", "t", "p", "s", ":", "/", "/", "a", ".", "g", "o", "v", "/", "b", "i", "d", "s">>, <<"h", "t", "t", "p", "s", ":", "/", "/", "a", ".", "g", "o", "v", "/", "b", "i", "d", "s", ".", "p", "d", "f">>}
\* how the download of robots.txt ends: the file is read and parsed, the server
\* answers 404, it answers 401 or 403, or urlopen raises (no connection, a
\* timeout) or the server answers 5xx
RobotsOutcomes == {"rules", "missing", "forbidden", "unreachable"}
\* the Disallow lines under User-agent: * of the file
RobotsDisallow == {<<"/", "d", "o", "t">>}

Put(f, k, v) == [x \in DOMAIN f \cup {k} |-> IF x = k THEN v ELSE f[x]]
EmptyMap == [x \in {} |-> 0]

\* compliance.py 16-17: f"{parsed_url.scheme}://{parsed_url.netloc}"
base_url(url) ==
  SubSeq(url, 1, IndexOf(<<":", "/", "/">>, url) + 2) \o urlparse(url).netloc

\* urllib.robotparser.RobotFileParser(): a new parser; `read` notes how its
\* download ended
RobotFileParser ==
  [disallow_all |-> FALSE, allow_all |-> FALSE, last_checked |-> FALSE, entries |-> {}, read |-> "none"]
\* compliance.py 30-46: rp.read() inside try/except Exception: pass.  read()
\* parses the file (parse() sets last_checked), sets allow_all on 404 and
\* disallow_all on 401/403; when urlopen raises or the answer is 5xx the
\* parser stays as it was made
rp_read(outcome) ==
  IF outcome = "rules"
  THEN [RobotFileParser EXCEPT !.last_checked = TRUE, !.entries = RobotsDisallow, !.read = outcome]
  ELSE IF outcome = "missing" THEN [RobotFileParser EXCEPT !.allow_all = TRUE, !.read = outcome]
  ELSE IF outcome = "forbidden" THEN [RobotFileParser EXCEPT !.disallow_all = TRUE, !.read = outcome]
  ELSE [RobotFileParser EXCEPT !.read = outcome]
\* compliance.py 48: RobotFileParser.can_fetch(user_agent, url)
rp_can_fetch(rp, url) ==
  IF rp.disallow_all THEN FALSE
  ELSE IF rp.allow_all THEN TRUE
  ELSE IF ~rp.last_checked THEN FALSE
  ELSE LET path == IF urlparse(url).path = <<>> THEN <<"/">> ELSE urlparse(url).path
       IN ~\E e \in rp.entries : StartsWith(path, e)

\* ComplianceManager.__init__
ComplianceManager == [robot_parsers |-> EmptyMap, last_request_time |-> EmptyMap]
\* compliance.py 19-24: the time at which the rate limiter lets the caller go on
wake_time(g, url, now, delay) ==
  IF base_url(url) \in DOMAIN g.last_request_time /\ now - g.last_request_time[base_url(url)] < delay
  THEN g.last_request_time[base_url(url)] + delay
  ELSE now
\* compliance.py 26-48: the request time is noted, the parser of the host is
\* made and filled when there is none, and the parser answers
can_fetch(g, url, now, outcome) ==
  LET b == base_url(url)
      parsers == IF b \in DOMAIN g.robot_parsers THEN g.robot_parsers
                 ELSE Put(g.robot_parsers, b, rp_read(outcome))
  IN [gate |-> [robot_parsers |-> parsers, last_request_time |-> Put(g.last_request_time, b, now)],
      allowed |-> rp_can_fetch(parsers[b], url),
      fetched |-> b \notin DOMAIN g.robot_parsers]

DeepIdle ==
  /\ deep = [i \in Scanners |-> [pc |-> "idle", k |-> 0, wake |-> 0]]
  /\ gate = [i \in Scanners |-> ComplianceManager]
  /\ web = [now |-> 0, nav |-> {}, asked |-> {}, fetched |-> EmptyMap, last |-> EmptyMap, gaps |-> {}]
DeepInit == DeepIdle /\ bids = <<>>

\* tasks.py 105, hierarchical.py 33-40, 258-271: the scraper of a job is built,
\* with a new ComplianceManager, and its deep scan reads the agencies
DeepStart(i) ==
  /\ deep[i].pc = "idle"
  /\ deep' = [deep EXCEPT ![i] = [pc |-> "agency", k |-> 1, wake |-> 0]]
  /\ gate' = [gate EXCEPT ![i] = ComplianceManager]
  /\ UNCHANGED <<web, bids>>
  /\ UNCHANGED deepRest

\* the for loop of hierarchical.py 273 goes on
Advance(d) ==
  IF d.k < Len(DeepAgencies) THEN [d EXCEPT !.pc = "agency", !.k = @ + 1]
  ELSE [d EXCEPT !.pc = "done"]

\* a variant of the step without the check for a file
DeepAgencyAnyUrl(i, delay) ==
  /\ deep[i].pc = "agency"
  /\ LET url == DeepAgencies[deep[i].k].url
     IN deep' = [deep EXCEPT ![i] =
                   IF url_already_scraped(bids, url) THEN Advance(@)
                   ELSE [@ EXCEPT !.pc = "gate", !.wake = wake_time(gate[i], url, web.now, delay)]]
  /\ UNCHANGED <<gate, web, bids>>
  /\ UNCHANGED deepRest

\* hierarchical.py 274-290, compliance.py 16-24: the dedup check, the file
\* check, and the rate limiter of can_fetch, which sleeps when the host was
\* asked for less than `delay` seconds ago
DeepAgency(i, delay) ==
  /\ deep[i].pc = "agency"
  /\ LET url == DeepAgencies[deep[i].k].url
     IN deep' = [deep EXCEPT ![i] =
                   IF url_already_scraped(bids, url) \/ is_file_url(url) THEN Advance(@)
                   ELSE [@ EXCEPT !.pc = "gate", !.wake = wake_time(gate[i], url, web.now, delay)]]
  /\ UNCHANGED <<gate, web, bids>>
  /\ UNCHANGED deepRest

\* compliance.py 26-48, hierarchical.py 290-301: after the sleep can_fetch
\* answers; a refused agency is skipped, an allowed one is navigated to
GatePass(i, outcome) ==
  /\ deep[i].pc = "gate"
  /\ web.now >= deep[i].wake
  /\ LET url == DeepAgencies[deep[i].k].url
         b == base_url(url)
         r == can_fetch(gate[i], url, web.now, outcome)
     IN /\ gate' = [gate EXCEPT ![i] = r.gate]
        /\ web' = [web EXCEPT
                     !.asked = @ \cup {[scanner |-> i, url |-> url, allowed |-> r.allowed,
                                        read |-> r.gate.robot_parsers[b].read]},
                     !.fetched = IF r.fetched
                                 THEN Put(@, b, IF b \in DOMAIN @ THEN @[b] + 1 ELSE 1) ELSE @,
                     !.last = IF r.allowed THEN Put(@, b, web.now) ELSE @,
                     !.gaps = IF r.allowed /\ b \in DOMAIN web.last
                              THEN @ \cup {web.now - web.last[b]} ELSE @,
                     !.nav = IF r.allowed THEN @ \cup {[scanner |-> i, url |-> url, kind |-> "agency"]}
                             ELSE @]
        /\ deep' = [deep EXCEPT ![i] = IF r.allowed THEN [@ EXCEPT !.pc = "page"] ELSE Advance(@)]
  /\ UNCHANGED bids
  /\ UNCHANGED deepRest

\* hierarchical.py 303-413: on the page of the agency a better URL is looked
\* for and navigated to; the extractor finds an opportunity that passes the
\* pipeline and is stored under the agency's URL, or nothing is stored (no
\* content, no candidates, none accepted, or an error that is caught)
DeepPage(i, better, found) ==
  /\ deep[i].pc = "page"
  /\ LET agency == DeepAgencies[deep[i].k]
     IN /\ web' = [web EXCEPT
                     !.nav = IF better # NoText /\ better # agency.url /\ ~is_file_url(better)
                             THEN @ \cup {[scanner |-> i, url |-> better, kind |-> "better"]}
                             ELSE @]
        /\ bids' = IF found /\ Level2Verdict(L2Pool[1], agency, TradeLists[2], DeepState, today) = "accepted"
                   THEN Persist(bids, Level2Item(L2Pool[1], agency, TradeLists[2], today), DeepState, today)
                   ELSE bids
  /\ deep' = [deep EXCEPT ![i] = Advance(@)]
  /\ UNCHANGED gate
  /\ UNCHANGED deepRest

\* a second passes
Tick ==
  /\ web.now < MaxTime
  /\ web' = [web EXCEPT !.now = @ + 1]
  /\ UNCHANGED <<deep, gate, bids>>
  /\ UNCHANGED deepRest

DeepNext ==
  \/ \E i \in Scanners : DeepStart(i)
  \/ \E i \in Scanners, delay \in Delays : DeepAgency(i, delay)
  \/ \E i \in Scanners, outcome \in RobotsOutcomes : GatePass(i, outcome)
  \/ \E i \in Scanners, better \in BetterUrls, found \in BOOLEAN : DeepPage(i, better, found)
  \/ Tick

(***************************************************************************)
(* Part 9: the URL functions of the discovery, each applied to arguments   *)
(* drawn at the start (rfp_scraper/discovery.py is_better_url and          *)
(* _generate_candidates).                                                  *)
(***************************************************************************)
NoCall == [fn |-> "none"]
UrlIdle == uin = NoCall /\ uout = NoCall /\ upc = "idle"

\* new URLs: none, the empty string, root domains with and without .gov, with
\* www. and a trailing slash, pages below a domain, and a page of a host
\* whose name holds ".gov" without ending in it
NewUrls == {NoText, <<>>, <<"h", "t", "t", "p", "s", ":", "/", "/", "e", "l", "y", ".", "g", "o", "v">>, <<"h", "t", "t", "p", "s", ":", "/", "/", "w", "w", "w", ".", "e", "l", "y", ".", "g", "o", "v", "/">>, <<"h", "t", "t", "p", "s", ":", "/", "/", "e", "l", "y", ".", "o", "r", "g">>,
            <<"h", "t", "t", "p", "s", ":", "/", "/", "e", "l", "y", ".", "g", "o", "v", "/", "b", "i", "d", "s">>, <<"h", "t", "t", "p", "s", ":", "/", "/", "e", "l", "y", ".", "o", "r", "g", "/", "b", "i", "d", "s">>, <<"h", "t", "t", "p", "s", ":", "/", "/", "e", "l", "y", ".", "g", "o", "v", "o", "f", "f", "i", "c", "e", ".", "c", "o", "m", "/", "b", "i", "d", "s">>}
\* stored URLs: none, the empty string, roots and pages with and without .gov
OldUrls == {NoText, <<>>, <<"h", "t", "t", "p", "s", ":", "/", "/", "e", "l", "y", ".", "g", "o", "v">>, <<"h", "t", "t", "p", "s", ":", "/", "/", "e", "l", "y", ".", "o", "r", "g">>, <<"h", "t", "t", "p", "s", ":", "/", "/", "w", "w", "w", ".", "e", "l", "y", ".", "o", "r", "g", "/", "i", "n", "d", "e", "x", ".", "h", "t", "m", "l">>,
            <<"h", "t", "t", "p", "s", ":", "/", "/", "e", "l", "y", ".", "g", "o", "v", "/", "w", "o", "r", "k", "s">>, <<"h", "t", "t", "p", "s", ":", "/", "/", "e", "l", "y", ".", "o", "r", "g", "/", "w", "o", "r", "k", "s">>, <<"h", "t", "t", "p", "s", ":", "/", "/", "e", "l", "y", "h", "a", ".", "o", "r", "g", "/", "b", "i", "d", "s">>}

BetterInit ==
  /\ uin \in {[fn |-> "is_better_url", new_url |-> n, old_url |-> o, old_reachable |-> a] :
                n \in NewUrls, o \in OldUrls, a \in BOOLEAN}
  /\ uout = NoCall
  /\ upc = "call"

\* is_better_url(new_url, old_url) returns; `checked` tells whether it asked
\* check_url_reachability
ApplyIsBetterUrl ==
  /\ upc = "call"
  /\ uin.fn = "is_better_url"
  /\ uout' = [fn |-> uin.fn,
              result |-> is_better_url(uin.new_url, uin.old_url, uin.old_reachable),
              checked |-> is_better_url_checks(uin.new_url, uin.old_url)]
  /\ upc' = "done"
  /\ UNCHANGED uin
  /\ UNCHANGED urlRest

BetterNext == ApplyIsBetterUrl

MaxPatterns == 3       \* patterns in the list given to _generate_candidates

\* str.replace(old, new)
RECURSIVE ReplaceAll(_, _, _)
ReplaceAll(s, old, new) ==
  IF Len(s) < Len(old) THEN s
  ELSE IF StartsWith(s, old) THEN new \o ReplaceAll(SubSeq(s, Len(old) + 1, Len(s)), old, new)
  ELSE <<Head(s)>> \o ReplaceAll(Tail(s), old, new)

\* discovery.py 118-119
name_clean(name) == ReplaceAll(Lower(name), <<" ">>, <<>>)
state_clean(state_abbr) == Strip(Lower(state_abbr))
\* discovery.py 124-134: the placeholders of a pattern are filled in
pattern_domain(name, state_abbr, pattern) ==
  ReplaceAll(ReplaceAll(ReplaceAll(ReplaceAll(ReplaceAll(ReplaceAll(ReplaceAll(pattern,
    <<"[", "c", "i", "t", "y", "n", "a", "m", "e", "]">>, name_clean(name)),
    <<"[", "t", "o", "w", "n", "n", "a", "m", "e", "]">>, name_clean(name)),
    <<"[", "c", "o", "u", "n", "t", "y", "n", "a", "m", "e", "]">>, name_clean(name)),
    <<"[", "p", "a", "r", "i", "s", "h", "n", "a", "m", "e", "]">>, name_clean(name)),
    <<"[", "s", "t", "a", "t", "e", "_", "a", "b", "b", "r", "e", "v", "]">>, state_clean(state_abbr)),
    <<"[", "n", "a", "m", "e", "]">>, name_clean(name)),
    <<"[", "s", "t", "a", "t", "e", "]">>, state_clean(state_abbr))
\* discovery.py 136-141: the candidates that one pattern appends
pattern_candidates(name, state_abbr, pattern) ==
  LET domain == pattern_domain(name, state_abbr, pattern)
  IN IF StartsWith(domain, <<"h", "t", "t", "p">>) THEN <<>>
     ELSE IF StartsWith(domain, <<"w", "w", "w", ".">>) THEN <<<<"h", "t", "t", "p", "s", ":", "/", "/">> \o domain>>
     ELSE <<<<"h", "t", "t", "p", "s", ":", "/", "/">> \o domain, <<"h", "t", "t", "p", "s", ":", "/", "/", "w", "w", "w", ".">> \o domain>>
\* discovery.py 121-141: the loop over the patterns
RECURSIVE all_candidates(_, _, _)
all_candidates(name, state_abbr, patterns) ==
  IF patterns = <<>> THEN <<>>
  ELSE pattern_candidates(name, state_abbr, Head(patterns))
         \o all_candidates(name, state_abbr, Tail(patterns))
\* discovery.py 143-149: deduplicate while preserving order
RECURSIVE unique_candidates(_, _)
unique_candidates(candidates, seen) ==
  IF candidates = <<>> THEN <<>>
  ELSE IF Head(candidates) \in seen THEN unique_candidates(Tail(candidates), seen)
  ELSE <<Head(candidates)>> \o unique_candidates(Tail(candidates), seen \cup {Head(candidates)})

\* a variant of _generate_candidates that returns the candidates as appended
_generate_candidates_all(name, state_abbr, patterns) == all_candidates(name, state_abbr, patterns)
\* discovery._generate_candidates
_generate_candidates(name, state_abbr, patterns) ==
  unique_candidates(all_candidates(name, state_abbr, patterns), {})

\* names, the state abbreviation and patterns: two placeholders for one name,
\* a pattern that has www., a pattern that has a scheme
CandNames == {<<"E", "l", "y">>, <<"N", "e", "w", " ", "E", "l", "y">>}
CandState == <<" ", "C", "T">>
PatternPool == {<<"[", "c", "i", "t", "y", "n", "a", "m", "e", "]", ".", "g", "o", "v">>, <<"[", "t", "o", "w", "n", "n", "a", "m", "e", "]", ".", "g", "o", "v">>, <<"w", "w", "w", ".", "[", "n", "a", "m", "e", "]", "[", "s", "t", "a", "t", "e", "_", "a", "b", "b", "r", "e", "v", "]", ".", "g", "o", "v">>,
                <<"h", "t", "t", "p", ":", "/", "/", "[", "n", "a", "m", "e", "]", ".", "u", "s">>}
PatternLists == UNION {[1..n -> PatternPool] : n \in 0..MaxPatterns}

CandInit ==
  /\ uin \in {[fn |-> "_generate_candidates", name |-> n, state_abbr |-> CandState, patterns |-> p] :
                n \in CandNames, p \in PatternLists}
  /\ uout = NoCall
  /\ upc = "call"

\* _generate_candidates(name, state_abbr, patterns) returns
ApplyGenerateCandidates ==
  /\ upc = "call"
  /\ uin.fn = "_generate_candidates"
  /\ uout' = [fn |-> uin.fn, result |-> _generate_candidates(uin.name, uin.state_abbr, uin.patterns)]
  /\ upc' = "done"
  /\ UNCHANGED uin
  /\ UNCHANGED urlRest

CandNext == ApplyGenerateCandidates

(***************************************************************************)
(* Part 10: opening the store and the table of local jurisdictions         *)
(* (rfp_scraper/db.py __init__, _init_db, append_local_jurisdiction).      *)
(* Jobs and sessions each build a DatabaseHandler on the same database     *)
(* file, which runs _init_db, and then append jurisdictions; the SELECT    *)
(* and the INSERT of an append are two steps, so appends of two jobs       *)
(* interleave.  The file may come from an earlier version of the program   *)
(* and hold agencies without URL.                                          *)
(***************************************************************************)
MaxCallers == 2        \* jobs that use the store at the same time
MaxAppends == 2        \* calls of append_local_jurisdiction by one job

StoreJobs == 1..MaxCallers
JurRow(id, state_id, name, type) == [id |-> id, state_id |-> state_id, name |-> name, type |-> type]
EmptyJuris == [rows |-> <<>>, seq |-> 0]
JurNames == {<<"E", "l", "y">>}
JurTypes == {<<"t", "o", "w", "n">>, <<"c", "i", "t", "y">>}

\* SELECT id FROM local_jurisdictions WHERE state_id = ? AND name = ? AND type = ?
\* and fetchone: the id of the first row, NoId when there is none
select_jurisdiction(tbl, state_id, name, type) ==
  LET m == {i \in DOMAIN tbl.rows : /\ tbl.rows[i].state_id = state_id
                                     /\ tbl.rows[i].name = name
                                     /\ tbl.rows[i].type = type}
  IN IF m = {} THEN NoId ELSE tbl.rows[Least(m)].id

\* an INSERT into a table local_jurisdictions that has no UNIQUE constraint
insert_jurisdiction_unchecked(tbl, state_id, name, type) ==
  [tbl |-> [rows |-> Append(tbl.rows, JurRow(tbl.seq + 1, state_id, name, type)), seq |-> tbl.seq + 1],
   id |-> tbl.seq + 1, raised |-> FALSE]
\* INSERT INTO local_jurisdictions (db.py 343-346) under UNIQUE(state_id, name,
\* type) (db.py 78-88): sqlite3.IntegrityError when the triple is there
insert_jurisdiction(tbl, state_id, name, type) ==
  IF select_jurisdiction(tbl, state_id, name, type) # NoId
  THEN [tbl |-> tbl, id |-> NoId, raised |-> TRUE]
  ELSE [tbl |-> [rows |-> Append(tbl.rows, JurRow(tbl.seq + 1, state_id, name, type)),
                 seq |-> tbl.seq + 1],
        id |-> tbl.seq + 1, raised |-> FALSE]

\* db.py 119-127: the agencies without URL of the categories county, city, town
pending_agency(row) ==
  /\ row.url \in {NoText, <<>>}
  /\ row.category \in {<<"c", "o", "u", "n", "t", "y">>, <<"c", "i", "t", "y">>, <<"t", "o", "w", "n">>}
\* db.py 130-142: each of them is inserted as a jurisdiction; a duplicate is skipped
RECURSIVE migrate_pending(_, _)
migrate_pending(jur, pending_rows) ==
  IF pending_rows = <<>> THEN jur
  ELSE migrate_pending(insert_jurisdiction(jur, Head(pending_rows).state_id,
                                           Head(pending_rows).organization_name,
                                           Head(pending_rows).category).tbl,
                       Tail(pending_rows))
\* DatabaseHandler._init_db on the tables agencies and local_jurisdictions (db.py
\* 119-151): the pending agencies are moved to local_jurisdictions and deleted
_init_db(tbl, jur) ==
  [agencies |-> [tbl EXCEPT !.rows = SelectSeq(@, LAMBDA r : ~pending_agency(r))],
   juris |-> migrate_pending(jur, SelectSeq(tbl.rows, pending_agency))]

\* a database file of an earlier version: a town and a city kept as agencies
\* without URL, and a state agency without URL
LegacyTable ==
  [rows |-> <<AgencyRow(1, StateId, <<"E", "l", "y">>, NoText, 0, <<"t", "o", "w", "n">>, NoId, "seed"),
              AgencyRow(2, StateId, <<"D", "O", "T">>, NoText, 0, <<"s", "t", "a", "t", "e", "_", "a", "g", "e", "n", "c", "y">>, NoId, "seed"),
              AgencyRow(3, StateId, <<"E", "l", "y">>, <<>>, 0, <<"c", "i", "t", "y">>, NoId, "seed")>>,
   seq |-> 3]
NoAppend == [pc |-> "idle", n |-> 0, name |-> NoText, type |-> NoText, outcome |-> "none", id |-> NoId]
JurIdle == juris = EmptyJuris /\ calls = [p \in StoreJobs |-> NoAppend]

JurInit ==
  /\ agencies \in {EmptyTable, LegacyTable}
  /\ juris \in {EmptyJuris, [rows |-> <<JurRow(1, StateId, <<"E", "l", "y">>, <<"t", "o", "w", "n">>)>>, seq |-> 1]}
  /\ calls = [p \in StoreJobs |-> [NoAppend EXCEPT !.pc = "new"]]

\* DatabaseHandler(): the job opens the store (db.py 8-14, _init_db)
OpenStore(p) ==
  /\ calls[p].pc = "new"
  /\ agencies' = _init_db(agencies, juris).agencies
  /\ juris' = _init_db(agencies, juris).juris
  /\ calls' = [calls EXCEPT ![p].pc = "idle"]
  /\ UNCHANGED jurRest

\* append_local_jurisdiction, db.py 332-341: the SELECT; the id of the row is
\* returned when there is one
AppendCheck(p, name, type) ==
  /\ calls[p].pc = "idle"
  /\ calls[p].n < MaxAppends
  /\ calls' = [calls EXCEPT ![p] =
                 IF select_jurisdiction(juris, StateId, name, type) # NoId
                 THEN [pc |-> "idle", n |-> @.n + 1, name |-> name, type |-> type,
                       outcome |-> "returned", id |-> select_jurisdiction(juris, StateId, name, type)]
                 ELSE [pc |-> "insert", n |-> @.n + 1, name |-> name, type |-> type,
                       outcome |-> "none", id |-> NoId]]
  /\ UNCHANGED <<agencies, juris>>
  /\ UNCHANGED jurRest

\* append_local_jurisdiction, db.py 343-350: the INSERT, commit, and the new id
\* returned; an IntegrityError is not caught and ends what the job was doing
AppendInsert(p) ==
  /\ calls[p].pc = "insert"
  /\ LET r == insert_jurisdiction(juris, StateId, calls[p].name, calls[p].type)
     IN /\ juris' = r.tbl
        /\ calls' = [calls EXCEPT ![p].pc = IF r.raised THEN "failed" ELSE "idle",
                                  ![p].outcome = IF r.raised THEN "raised" ELSE "returned",
                                  ![p].id = r.id]
  /\ UNCHANGED agencies
  /\ UNCHANGED jurRest

JurNext ==
  \/ \E p \in StoreJobs : OpenStore(p)
  \/ \E p \in StoreJobs, name \in JurNames, type \in JurTypes : AppendCheck(p, name, type)
  \/ \E p \in StoreJobs : AppendInsert(p)

(***************************************************************************)
(* Part 11: generate_and_validate_domains (rfp_scraper/discovery.py): the  *)
(* golden candidates, the candidates of the specific patterns and those of *)
(* the generic patterns are probed one at a time by                        *)
(* verify_agency_identity.  Which URLs pass the verification is an input   *)
(* of the call.                                                            *)
(***************************************************************************)
Digits == {"0", "1", "2", "3", "4", "5", "6", "7", "8", "9"}
\* utils.normalize_for_domain: whitespace and non-alphanumerics are stripped
normalize_for_domain(name) == SelectSeq(name, LAMBDA c : IsLetter(c) \/ c \in Digits)
\* discovery.py 172-179
golden_candidates(name, state_abbr) ==
  <<<<"h", "t", "t", "p", "s", ":", "/", "/", "w", "w", "w", ".">> \o normalize_for_domain(name) \o state_clean(state_abbr) \o <<".", "g", "o", "v">>,
    <<"h", "t", "t", "p", "s", ":", "/", "/">> \o normalize_for_domain(name) \o state_clean(state_abbr) \o <<".", "g", "o", "v">>>>

\* min(valid, key=len): the first of the shortest
shortest(valid) ==
  valid[Least({i \in DOMAIN valid : \A j \in DOMAIN valid : Len(valid[i]) <= Len(valid[j])})]
\* discovery.py 181-183, 190-191, 198-199: what a tier with verified candidates returns
tier_result(tier, valid) == IF tier = "golden" THEN valid[1] ELSE shortest(valid)

\* a variant that goes on to the next tier although a candidate was verified
tier_ends_call_never(valid) == FALSE
\* discovery.py 182, 190, 198: a tier that verified a candidate ends the call
tier_ends_call(valid) == valid # <<>>

\* discovery.py 185-201: the tier probed after `tier`, with its candidates
following_tier(tier, c) ==
  IF tier = "golden" /\ c.specific_patterns # <<>>
  THEN [tier |-> "specific", queue |-> _generate_candidates(c.name, c.state_abbr, c.specific_patterns)]
  ELSE IF tier \in {"golden", "specific"} /\ c.generic_patterns # <<>>
  THEN [tier |-> "generic", queue |-> _generate_candidates(c.name, c.state_abbr, c.generic_patterns)]
  ELSE [tier |-> "none", queue |-> <<>>]

ProbeNames == {<<"e", "l", "y">>, <<>>}
ProbeState == <<"c", "t">>
SpecificLists == {<<>>, <<<<"[", "n", "a", "m", "e", "]", "[", "s", "t", "a", "t", "e", "]", ".", "g", "o", "v">>>>, <<<<"[", "n", "a", "m", "e", "]", "-", "[", "s", "t", "a", "t", "e", "]", ".", "g", "o", "v">>, <<"w", "w", "w", ".", "[", "n", "a", "m", "e", "]", "[", "s", "t", "a", "t", "e", "]", ".", "u", "s">>>>}
GenericLists == {<<>>, <<<<"[", "n", "a", "m", "e", "]", ".", "o", "r", "g">>, <<"[", "n", "a", "m", "e", "]", ".", "g", "o", "v">>>>}
\* the URLs of which the verification may pass
VerifiablePool == {<<"h", "t", "t", "p", "s", ":", "/", "/", "w", "w", "w", ".", "e", "l", "y", "c", "t", ".", "g", "o", "v">>, <<"h", "t", "t", "p", "s", ":", "/", "/", "e", "l", "y", "c", "t", ".", "g", "o", "v">>, <<"h", "t", "t", "p", "s", ":", "/", "/", "w", "w", "w", ".", "e", "l", "y", "-", "c", "t", ".", "g", "o", "v">>,
                   <<"h", "t", "t", "p", "s", ":", "/", "/", "w", "w", "w", ".", "e", "l", "y", "c", "t", ".", "u", "s">>, <<"h", "t", "t", "p", "s", ":", "/", "/", "e", "l", "y", ".", "o", "r", "g">>, <<"h", "t", "t", "p", "s", ":", "/", "/", "e", "l", "y", ".", "g", "o", "v">>}
Probing(tier, queue, valid, probed) ==
  [fn |-> "generate_and_validate_domains", tier |-> tier, queue |-> queue, valid |-> valid,
   probed |-> probed, result |-> NoText]

ProbeInit ==
  /\ uin \in {[fn |-> "generate_and_validate_domains", name |-> n, state_abbr |-> ProbeState,
               specific_patterns |-> s, generic_patterns |-> g, verified |-> v] :
                n \in ProbeNames, s \in SpecificLists, g \in GenericLists,
                v \in SUBSET VerifiablePool}
  /\ uout = NoCall
  /\ upc = "call"

\* discovery.py 169-179: nothing is probed without a name or a state
\* abbreviation; otherwise the golden candidates are built
ProbeCall ==
  /\ upc = "call"
  /\ uin.fn = "generate_and_validate_domains"
  /\ IF uin.name = <<>> \/ uin.state_abbr = <<>>
     THEN uout' = Probing("none", <<>>, <<>>, <<>>) /\ upc' = "done"
     ELSE /\ uout' = Probing("golden", golden_candidates(uin.name, uin.state_abbr), <<>>, <<>>)
          /\ upc' = "probe"
  /\ UNCHANGED uin
  /\ UNCHANGED urlRest

\* _filter_verified_candidates, discovery.py 156-158: verify_agency_identity
\* for the next candidate of the tier; it returns False on any failure
ProbeCandidate ==
  /\ upc = "probe"
  /\ uout.queue # <<>>
  /\ LET url == Head(uout.queue)
     IN uout' = [uout EXCEPT !.queue = Tail(@),
                             !.valid = IF url \in uin.verified THEN Append(@, url) ELSE @,
                             !.probed = Append(@, [tier |-> uout.tier, url |-> url])]
  /\ UNCHANGED <<uin, upc>>
  /\ UNCHANGED urlRest

\* discovery.py 181-201: the candidates of the tier are exhausted
ProbeTierEnd ==
  /\ upc = "probe"
  /\ uout.queue = <<>>
  /\ IF tier_ends_call(uout.valid)
     THEN /\ uout' = [uout EXCEPT !.result = tier_result(uout.tier, uout.valid)]
          /\ upc' = "done"
     ELSE LET n == following_tier(uout.tier, uin)
          IN IF n.tier = "none"
             THEN uout' = uout /\ upc' = "done"
             ELSE uout' = [uout EXCEPT !.tier = n.tier, !.queue = n.queue] /\ upc' = "probe"
  /\ UNCHANGED uin
  /\ UNCHANGED urlRest

ProbeNext ==
  \/ ProbeCall
  \/ ProbeCandidate
  \/ ProbeTierEnd

(***************************************************************************)
(* Part 12: the wait for a bot challenge in the deep scan                  *)
(* (rfp_scraper/scrapers/hierarchical.py _handle_captcha and its call in   *)
(* scrape).  The page is changed by the site and by the person at the      *)
(* browser while the scan polls it; the clock counts the seconds since the *)
(* scan arrived at the page and advances when the scan sleeps.             *)
(***************************************************************************)
MaxTargets == 2          \* agencies of the deep scan
PollSeconds == 2         \* time.sleep(2)
CeilingSeconds == 120    \* time.time() - start_wait > 120

block_markers == {<<"v", "e", "r", "i", "f", "y", " ", "y", "o", "u", " ", "a", "r", "e", " ", "h", "u", "m", "a", "n">>, <<"j", "u", "s", "t", " ", "a", " ", "m", "o", "m", "e", "n", "t">>, <<"c", "h", "a", "l", "l", "e", "n", "g", "e">>, <<"c", "f", "-", "t", "u", "r", "n", "s", "t", "i", "l", "e">>, <<"s", "e", "c", "u", "r", "i", "t", "y", " ", "c", "h", "e", "c", "k">>}
\* any(m in text.lower() for m in block_markers)
has_marker(text) == \E m \in block_markers : Contains(m, Lower(text))
Titles == {<<"E", "l", "y">>, <<"J", "u", "s", "t", " ", "a", " ", "m", "o", "m", "e", "n", "t", ".", ".", ".">>, <<"A", "c", "c", "e", "s", "s", " ", "D", "e", "n", "i", "e", "d">>}
Contents == {<<"O", "p", "e", "n", " ", "b", "i", "d", "s">>, <<"V", "e", "r", "i", "f", "y", " ", "y", "o", "u", " ", "a", "r", "e", " ", "h", "u", "m", "a", "n">>}
Pages == [open : BOOLEAN, title : Titles, content : Contents]
NoPage == [open |-> FALSE, title |-> <<"E", "l", "y">>, content |-> <<"O", "p", "e", "n", " ", "b", "i", "d", "s">>]

\* hierarchical.py 50-60: the title is looked at first, the text only when the
\* title is clean; a page that cannot be read counts as not blocked
is_blocked(pg) == pg.open /\ (has_marker(pg.title) \/ has_marker(pg.content))
\* which of the two made is_blocked true
detected_by(pg) == IF has_marker(pg.title) THEN "title" ELSE "content"
\* a variant of the timeout that allows one poll more
timed_out_late(clock, start_wait) == clock - start_wait > CeilingSeconds + PollSeconds
\* hierarchical.py 74: time.time() - start_wait > 120
timed_out(clock, start_wait) == clock - start_wait > CeilingSeconds
\* hierarchical.py 81-82: the markers are gone from the title
title_clear(pg) ==
  ~has_marker(pg.title) /\ ~Contains(<<"a", "c", "c", "e", "s", "s", " ", "d", "e", "n", "i", "e", "d">>, Lower(pg.title))

CapOff == [pc |-> "idle", k |-> 0, clock |-> 0, start_wait |-> 0, via |-> "none",
           handled |-> "none", extracted |-> {}]
CapIdle == browser_page = NoPage /\ cap = CapOff
CapInit == browser_page = NoPage /\ cap = [CapOff EXCEPT !.pc = "arrive", !.k = 1]

\* the for loop of hierarchical.py 273 goes to the next agency, or ends
NextTarget(c) ==
  IF c.k < MaxTargets THEN [c EXCEPT !.pc = "arrive", !.k = @ + 1]
  ELSE [c EXCEPT !.pc = "done"]

\* hierarchical.py 292-295, 303-306: mimic_human_arrival loads the page of the
\* agency; when it raises, the handler goes on to the extraction
CapArrive(pg, arrived) ==
  /\ cap.pc = "arrive"
  /\ browser_page' = pg
  /\ cap' = [cap EXCEPT !.pc = IF arrived THEN "detect" ELSE "extract",
                        !.clock = 0, !.start_wait = 0, !.via = "none", !.handled = "none"]
  /\ UNCHANGED capRest

\* _handle_captcha, hierarchical.py 42-70 and 91: the detection
CapDetect ==
  /\ cap.pc = "detect"
  /\ cap' = IF is_blocked(browser_page)
            THEN [cap EXCEPT !.pc = "wait", !.start_wait = cap.clock, !.via = detected_by(browser_page)]
            ELSE [cap EXCEPT !.pc = "extract", !.handled = "clean"]
  /\ UNCHANGED browser_page
  /\ UNCHANGED capRest

\* _handle_captcha, hierarchical.py 72-89: one turn of the wait loop; scrape,
\* hierarchical.py 298-299: the agency is left when _handle_captcha returns False
CapPoll ==
  /\ cap.pc = "wait"
  /\ cap' = IF timed_out(cap.clock, cap.start_wait)
            THEN NextTarget([cap EXCEPT !.handled = "timeout"])
            ELSE IF ~browser_page.open
            THEN NextTarget([cap EXCEPT !.handled = "closed"])
            ELSE IF title_clear(browser_page)
            THEN [cap EXCEPT !.pc = "settle"]
            ELSE [cap EXCEPT !.clock = @ + PollSeconds]
  /\ UNCHANGED browser_page
  /\ UNCHANGED capRest

\* hierarchical.py 83-85: the page settles for a poll interval and
\* _handle_captcha returns True
CapSettle ==
  /\ cap.pc = "settle"
  /\ cap' = [cap EXCEPT !.pc = "extract", !.clock = @ + PollSeconds, !.handled = "resumed"]
  /\ UNCHANGED browser_page
  /\ UNCHANGED capRest

\* hierarchical.py 302-413: scrolling, the better URL, the extraction and the
\* candidates; an error is caught by the handler of the agency
CapExtract(ok) ==
  /\ cap.pc = "extract"
  /\ cap' = NextTarget([cap EXCEPT !.extracted = IF ok THEN @ \cup {cap.k} ELSE @])
  /\ UNCHANGED browser_page
  /\ UNCHANGED capRest

\* the site or the person at the browser changes the page, or closes it,
\* while the scan waits
PageChanges(pg) ==
  /\ cap.pc \in {"wait", "settle"}
  /\ browser_page.open
  /\ pg # browser_page
  /\ browser_page' = pg
  /\ UNCHANGED cap
  /\ UNCHANGED capRest

CapNext ==
  \/ \E pg \in Pages, arrived \in BOOLEAN : CapArrive(pg, arrived)
  \/ CapDetect
  \/ CapPoll
  \/ CapSettle
  \/ \E ok \in BOOLEAN : CapExtract(ok)
  \/ \E pg \in Pages : PageChanges(pg)

(***************************************************************************)
(* Specifications                                                          *)
(***************************************************************************)
vars == <<jobs, lock, wpc, wout, ret, ncalls, today, fin, fout, fpc, bids, ninserts, task, scr, obs,
          agencies, sync, disc, deep, gate, web, uin, uout, upc, juris, calls, browser_page, cap>>

JMIdle == JMInit

\* the Job Manager with its clients and workers
Init == JMInit /\ today = Date(2025, 2, 27) /\ PureIdle /\ StoreIdle /\ ScrapeIdle /\ RegIdle /\ DeepIdle /\ UrlIdle /\ JurIdle /\ CapIdle
Next == JMNext
Spec == Init /\ [][Next]_vars

\* the deadline functions applied to one deadline string
InitDate == DateInit /\ JMIdle /\ StoreIdle /\ ScrapeIdle /\ RegIdle /\ DeepIdle /\ UrlIdle /\ JurIdle /\ CapIdle
NextDate == DateNext
SpecDate == InitDate /\ [][NextDate]_vars

\* the opportunity store under a sequence of insert_bid calls
InitSlug == SlugInit /\ JMIdle /\ ScrapeIdle /\ RegIdle /\ DeepIdle /\ UrlIdle /\ JurIdle /\ CapIdle
NextSlug == SlugNext
SpecSlug == InitSlug /\ [][NextSlug]_vars

\* one scraping job over a list of jurisdictions
InitScrape == ScrapeInit /\ RegIdle /\ DeepIdle /\ UrlIdle /\ JurIdle /\ CapIdle
NextScrape == ScrapeNext
SpecScrape == InitScrape /\ [][NextScrape]_vars

\* the registry reconciler run twice on one snapshot
InitSync == SyncInit /\ JMIdle /\ today = Date(2025, 2, 27) /\ PureIdle /\ StoreIdle /\ ScrapeIdle /\ DeepIdle /\ UrlIdle /\ JurIdle /\ CapIdle
NextSync == SyncNext
SpecSync == InitSync /\ [][NextSync]_vars

\* a reconciliation followed by discovery runs
InitDisc == DiscInit /\ JMIdle /\ today = Date(2025, 2, 27) /\ PureIdle /\ StoreIdle /\ ScrapeIdle /\ DeepIdle /\ UrlIdle /\ JurIdle /\ CapIdle
NextDisc == DiscNext
SpecDisc == InitDisc /\ [][NextDisc]_vars

\* deep scans of the agencies on file by scraper instances, each with its gate
InitDeep == DeepInit /\ JMIdle /\ today = Date(2025, 2, 27) /\ PureIdle /\ StoreIdle /\ ScrapeIdle /\ RegIdle /\ UrlIdle /\ JurIdle /\ CapIdle
NextDeep == DeepNext
SpecDeep == InitDeep /\ [][NextDeep]_vars

\* is_better_url applied to a new URL and a stored URL that answers or not
InitBetter == BetterInit /\ JMIdle /\ today = Date(2025, 2, 27) /\ PureIdle /\ StoreIdle /\ ScrapeIdle /\ RegIdle /\ DeepIdle /\ JurIdle /\ CapIdle
NextBetter == BetterNext
SpecBetter == InitBetter /\ [][NextBetter]_vars

\* _generate_candidates applied to a name, a state abbreviation and a pattern list
InitCand == CandInit /\ JMIdle /\ today = Date(2025, 2, 27) /\ PureIdle /\ StoreIdle /\ ScrapeIdle /\ RegIdle /\ DeepIdle /\ JurIdle /\ CapIdle
NextCand == CandNext
SpecCand == InitCand /\ [][NextCand]_vars

\* generate_and_validate_domains applied to a name, pattern lists and a web
InitProbe == ProbeInit /\ JMIdle /\ today = Date(2025, 2, 27) /\ PureIdle /\ StoreIdle /\ ScrapeIdle /\ RegIdle /\ DeepIdle /\ JurIdle /\ CapIdle
NextProbe == ProbeNext
SpecProbe == InitProbe /\ [][NextProbe]_vars

\* jobs open the store and append jurisdictions at the same time
InitJur == JurInit /\ JMIdle /\ today = Date(2025, 2, 27) /\ PureIdle /\ StoreIdle /\ ScrapeIdle /\ sync = SyncIdle /\ disc = DiscIdle /\ DeepIdle /\ UrlIdle /\ CapIdle
NextJur == JurNext
SpecJur == InitJur /\ [][NextJur]_vars

\* a deep scan whose pages show bot challenges
InitCaptcha == CapInit /\ JMIdle /\ today = Date(2025, 2, 27) /\ PureIdle /\ StoreIdle /\ ScrapeIdle /\ RegIdle /\ DeepIdle /\ UrlIdle /\ JurIdle
NextCaptcha == CapNext
SpecCaptcha == InitCaptcha /\ [][NextCaptcha]_vars
\* the same when the thread of the scan is scheduled: time.sleep returns and
\* the calls of the page return or raise
ScanFairness == WF_vars(CapDetect) /\ WF_vars(CapPoll) /\ WF_vars(CapSettle)
SpecCaptchaFair == InitCaptcha /\ [][NextCaptcha]_vars /\ ScanFairness

\* the Job Manager when every worker thread is scheduled: target_func returns
\* or raises, and a worker that asks for the lock or holds it takes its next step
WorkerFairness ==
  /\ \A j \in JobIds :
       /\ WF_vars((\E r \in Results : WorkReturns(j, r)) \/ (\E e \in Errors : WorkRaises(j, e)))
       /\ WF_vars(CompletedLogAcquire(j))
  /\ WF_vars(Complete)
  /\ WF_vars(CompletedLog)
  /\ WF_vars(Fail)
SpecFair == Init /\ [][Next]_vars /\ WorkerFairness

(***************************************************************************)
(* Claims about the Job Manager                                            *)
(***************************************************************************)

\* C1: when a job's work function raises, the step that records the failure
\* sets that job's status to failed with the error text and the critical log
\* entry, leaves every other job's record (status, progress, logs, result,
\* error) as it was, stores or drops no job, and leaves the lock free so the
\* manager goes on serving calls.
JobFailureIsolated ==
  [][\A j \in DOMAIN jobs :
       (jobs[j].status = "running" /\ jobs'[j].status = "failed")
         => /\ jobs'[j].error = wout[j]
            /\ jobs'[j].error \in Errors
            /\ jobs'[j].logs = Append(jobs[j].logs, CriticalEntry(wout[j]))
            /\ jobs'[j].progress = jobs[j].progress
            /\ jobs'[j].result = jobs[j].result
            /\ DOMAIN jobs' = DOMAIN jobs
            /\ \A k \in DOMAIN jobs \ {j} : jobs'[k] = jobs[k]
            /\ lock' = Free]_vars

\* C1 witness: a job has failed, another job is still running with the
\* progress and log line it was given, and the manager has served a call on
\* the failed job after the failure (a log line behind the critical entry).
JobFailureIsolatedWitness ==
  \E j \in DOMAIN jobs, k \in DOMAIN jobs :
    /\ j # k
    /\ jobs[j].status = "failed" /\ jobs[j].error = "e1"
    /\ Len(jobs[j].logs) = 2
    /\ jobs[j].logs[1] = CriticalEntry("e1")
    /\ jobs[j].logs[2].stamped
    /\ jobs[k].status = "running" /\ jobs[k].progress = 1
    /\ lock = Free

\* C10: a job's status changes only from running to completed or from running
\* to failed; a completed or failed job keeps its status in every later step,
\* whatever calls are interleaved with the worker.
StatusOnlyRunningToTerminal ==
  [][/\ \A j \in DOMAIN jobs :
          jobs'[j].status # jobs[j].status
            => jobs[j].status = "running" /\ jobs'[j].status \in {"completed", "failed"}
     /\ \A j \in DOMAIN jobs' \ DOMAIN jobs : jobs'[j].status = "running"]_vars

\* C10 witness: a completed job whose progress was changed by a later
\* update_progress call, beside a failed job with a later log line.
StatusOnlyRunningToTerminalWitness ==
  \E j \in DOMAIN jobs, k \in DOMAIN jobs :
    /\ jobs[j].status = "completed" /\ jobs[j].progress = 1 /\ wpc[j] = "done"
    /\ jobs[k].status = "failed" /\ Len(jobs[k].logs) = 2 /\ jobs[k].logs[2].stamped

\* C11: under fair scheduling of the workers, every started job whose work
\* function returns or raises reaches a terminal status: completed when the
\* function returned, failed when it raised; no job stays running forever.
JobReachesTerminalStatus ==
  \A j \in JobIds :
    (wpc[j] = "work") ~>
      (/\ wpc[j] \in {"completed", "done"}
       /\ jobs[j].status = (IF wout[j] \in Results THEN "completed" ELSE "failed")
       /\ wout[j] \in Results \cup Errors)

\* C11 witness: one job has completed and another has failed, both workers are through
JobReachesTerminalStatusWitness ==
  \E j \in DOMAIN jobs, k \in DOMAIN jobs :
    /\ wpc[j] = "done" /\ wout[j] \in Results /\ jobs[j].status = "completed"
    /\ wpc[k] = "done" /\ wout[k] \in Errors /\ jobs[k].status = "failed"

IsPrefix(s, t) == Len(s) <= Len(t) /\ SubSeq(t, 1, Len(s)) = s

\* C12: a job's log only grows: every step keeps the entries a log holds, in
\* their order, and adds at most one behind them; an add_log call on a stored
\* job and an update_progress call with a message on a stored job, by whatever
\* thread, append exactly their one entry.
LogOnlyGrows ==
  [][/\ \A j \in DOMAIN jobs :
          /\ j \in DOMAIN jobs'
          /\ IsPrefix(jobs[j].logs, jobs'[j].logs)
          /\ Len(jobs'[j].logs) <= Len(jobs[j].logs) + 1
     /\ \A jid \in DOMAIN jobs, m \in Msgs :
          (\E t \in Callers(jid) : AddLog(t, jid, m))
            => jobs'[jid].logs = Append(jobs[jid].logs, Stamped(m))
     /\ \A jid \in DOMAIN jobs, p \in ProgressInputs, m \in ProgressMsgs \ {None} :
          (\E t \in Callers(jid) : UpdateProgress(t, jid, p, m))
            => jobs'[jid].logs = Append(jobs[jid].logs, Stamped(m))]_vars

\* C12 witness: a log that holds, in the order of the calls, the line of a
\* client or worker call, the line of a second call and the worker's closing line
LogOnlyGrowsWitness ==
  \E j \in DOMAIN jobs :
    /\ Len(jobs[j].logs) = 3
    /\ jobs[j].logs[1] = Stamped("m1")
    /\ jobs[j].logs[2] = Stamped("m2")
    /\ jobs[j].logs[3] = Stamped(CompletedMsg)

\* C13: the progress of every job lies in [0.0, 1.0], whatever values
\* update_progress was called with
ProgressInUnitInterval ==
  \A j \in DOMAIN jobs : 0 <= jobs[j].progress /\ jobs[j].progress <= ProgressOne

\* C13 witness: a running job stands at 1.0 (update_progress was called with a
\* value above 1.0) beside a job that a call with a value below 0.0 put back to
\* 0.0 after it had completed
ProgressInUnitIntervalWitness ==
  \E j \in DOMAIN jobs, k \in DOMAIN jobs :
    /\ jobs[j].status = "running" /\ jobs[j].progress = ProgressOne
    /\ jobs[k].status = "completed" /\ jobs[k].progress = 0

\* what a caller reads in a value that get_job or get_active_jobs returned
ValueOf(r, js) ==
  IF r.kind = "ref" THEN {js[r.id]}
  ELSE {[id |-> i.id, status |-> i.status, progress |-> i.progress, result |-> i.result,
         error |-> i.error, logs |-> js[i.logsOf].logs] : i \in r.items}

\* C14: a value returned by get_job or get_active_jobs is a snapshot: as long
\* as the caller holds it, later updates of the job do not change what it reads
ReturnedValueIsSnapshot ==
  [][\A c \in Clients :
       ret'[c] = ret[c] => ValueOf(ret'[c], jobs') = ValueOf(ret[c], jobs)]_vars

(***************************************************************************)
(* Claims about deadlines                                                  *)
(***************************************************************************)

NormalizedTriple(title, client_name, source_url) ==
  <<Lower(title), Lower(client_name), Lower(source_url)>>
SameOpportunity(row, o) ==
  NormalizedTriple(row.title, row.client_name, row.source_url) = NormalizedTriple(o.title, o.client, o.url)

\* C5: the fingerprint stored for an opportunity is the one computed from its
\* lower-cased (title, client, source URL) triple; after every insert_bid no
\* two rows share a fingerprint or a lower-cased triple; and persisting an
\* opportunity whose lower-cased triple is already stored adds no row and
\* updates the stored row's deadline.
OneRecordPerFingerprint ==
  [][ninserts' = ninserts + 1 =>
       /\ \E i \in DOMAIN bids' :
            /\ bids'[i].slug = generate_slug(Lower(fin'.title), Lower(fin'.client), Lower(fin'.url))
            /\ bids'[i].deadline = fin'.deadline
       /\ \A i, j \in DOMAIN bids' :
            (\/ bids'[i].slug = bids'[j].slug
             \/ NormalizedTriple(bids'[i].title, bids'[i].client_name, bids'[i].source_url)
                  = NormalizedTriple(bids'[j].title, bids'[j].client_name, bids'[j].source_url))
              => i = j
       /\ \A i \in DOMAIN bids' :
            bids'[i].slug = generate_slug(bids'[i].title, bids'[i].client_name, bids'[i].source_url)
       /\ (\E i \in DOMAIN bids : SameOpportunity(bids[i], fin')) => Len(bids') = Len(bids)]_vars

\* C5 witness: "Road" was persisted, then "ROAD" for the same client and URL
\* in other case with a later deadline; the store holds one row, with the
\* first title and the second deadline.
OneRecordPerFingerprintWitness ==
  /\ ninserts = 2 /\ Len(bids) = 1
  /\ bids[1].title = <<"R", "o", "a", "d">> /\ fin.title = <<"R", "O", "A", "D">>
  /\ bids[1].source_url = <<"h", "t", "t", "p", ":", "/", "/", "x", ".", "g", "o", "v">> /\ fin.url = <<"h", "t", "t", "p", ":", "/", "/", "X", ".", "g", "o", "v">>
  /\ bids[1].deadline = DateStr("iso", Date(2025, 4, 4))


(***************************************************************************)
(* Claims about the orchestrator                                           *)
(***************************************************************************)
\* the items of a result list that came from jurisdiction s
ItemsOf(result, s) == {n \in DOMAIN result : result[n].SourceState = s}

PersistedPassedBlocklist ==
  \A i \in DOMAIN bids : should_visit_url(bids[i].source_url, bids[i].title)

\* the deadline strings that hold no resolvable date
Unresolvable == {"none", "empty", "text", "badday"}

\* C7: a step of Level 1 or Level 2 on a candidate for which the classifier
\* returns zero trade tags leaves the store and the results of the run
\* unchanged, and no stored record or result item has an empty list of trades
ZeroTradesNeverPersisted ==
  /\ [](/\ \A i \in DOMAIN bids : bids[i].matching_trades # <<>>
        /\ \A n \in DOMAIN scr.results : scr.results[n].matching_trades # <<>>
        /\ \A n \in DOMAIN task.all_results : task.all_results[n].matching_trades # <<>>)
  /\ [][((\E n \in DOMAIN L1Pool, a \in L1Answers :
            TradeLists[a[3]] = <<>> /\ L1Row(n, a[1], a[2], a[3]))
         \/ (\E n \in DOMAIN L2Pool, t \in DOMAIN TradeLists :
               TradeLists[t] = <<>> /\ L2Bid(n, t)))
        => (bids' = bids /\ scr'.results = scr.results)]_vars

\* C7 witness: a Level 2 candidate with a valid title and deadline was
\* rejected for its zero trade tags, after another candidate was persisted
ZeroTradesNeverPersistedWitness ==
  /\ scr.last = [level |-> 2, verdict |-> "no_trades", kind |-> "iso"]
  /\ bids # <<>>

\* C9: every stored record has a deadline that is a calendar date written
\* YYYY-MM-DD, the store changes only in a step that accepts a candidate, and
\* a candidate whose deadline is missing or cannot be parsed is not accepted
PersistedDeadlineResolved ==
  /\ [](/\ \A i \in DOMAIN bids :
             /\ bids[i].deadline.fmt = "iso"
             /\ ValidDate(Date(bids[i].deadline.y, bids[i].deadline.m, bids[i].deadline.d))
        /\ scr.last.kind \in Unresolvable => scr.last.verdict # "accepted")
  /\ [][bids' # bids => (scr'.last.verdict = "accepted" /\ scr'.last.kind \notin Unresolvable)]_vars

\* C9 witness: a Level 2 candidate was rejected for its deadline that holds no
\* date, while the store holds a record
PersistedDeadlineResolvedWitness ==
  /\ scr.last.verdict = "deadline"
  /\ scr.last.level = 2
  /\ scr.last.kind \in Unresolvable
  /\ bids # <<>>


\* C15: in the deep scan the agencies are taken once each in the order of the
\* enumeration, and a failure at any step of one agency (the dedup check
\* included) makes the scan advance to the next agency, or end when it was
\* the last one
AgencyFailureAdvances ==
  [][(task.pc = "scrape" /\ scr.pc \in {"agency", "bids"} /\ scr' # scr)
       => \/ scr'.pc = "bids" /\ scr'.k = scr.k
          \/ scr'.pc = "agency" /\ scr'.k = scr.k + 1
          \/ scr'.pc = "return" /\ scr.k = Len(AgenciesOf[CurrentState])]_vars

\* C16: while Level 1 goes through the records of the adapter, a failure on
\* one record (a broken link, a navigation error, or an error raised while
\* cleaning, validating, classifying or persisting it) skips that record only:
\* the loop goes on with the records behind it
Level1FailureSkipsOneItem ==
  [][(/\ task.pc = "scrape" /\ scr.pc = "l1"
      /\ scr'.nrows = scr.nrows + 1
      /\ scr'.last.verdict \in {"broken", "error", "raised"})
       => scr'.pc = "l1"]_vars

(***************************************************************************)
(* Claims about the registry reconciler                                    *)
(***************************************************************************)
\* C3: when sync_state_database has run twice for the same state on the same
\* registry snapshot, the second run reports added = 0 and updated = 0 and the
\* agency table is as the first run left it
SyncTwiceIdempotent ==
  sync.pc = "done" => (sync.stats = ZeroStats /\ agencies = sync.after_first)

\* C22: after a sync over a registry that holds a record for an agency on file
\* without URL (same state, its name the organization name of the record), the
\* agency has the URL of the registry, so no such agency is left without URL.
SyncFillsMissingUrl ==
  sync.run = 2 =>
    \A i \in DOMAIN agencies.rows : \A k \in DOMAIN sync.state_df :
      (/\ agencies.rows[i].state_id = StateId
       /\ RegistryFields[sync.state_df[k]].domain # <<>>
       /\ agencies.rows[i].organization_name = RegistryFields[sync.state_df[k]].org_name)
        => Truthy(agencies.rows[i].url)


(***************************************************************************)
(* Claims about the discovery runs                                         *)
(***************************************************************************)
\* the row with the given id, before and after a step
RowsOf(rows, id) == {rows[n] : n \in {k \in DOMAIN rows : rows[k].id = id}}

\* C4: an agency whose url the registry reconciler has written never holds a
\* url that came from pattern guessing or search
ReconciledNeverGuessed ==
  \A i \in DOMAIN agencies.rows : agencies.rows[i].reconciled => agencies.rows[i].origin # "guess"

\* C4: a discovery run (run_discovery_task or sync_and_repair_agencies) puts a
\* guessed url in place of a ".gov" url the registry reconciler wrote only in
\* sync_and_repair_agencies and only when the liveness check of the stored url
\* fails; while the check succeeds the stored url stays as the reconciler wrote it
ReconciledGuessedOnlyWhenDead ==
  [][\A i \in DOMAIN agencies.rows :
       (/\ agencies.rows[i].origin = "reconciler"
        /\ Contains(<<".", "g", "o", "v">>, Lower(agencies.rows[i].url))) =>
         \A r \in RowsOf(agencies'.rows, agencies.rows[i].id) :
           /\ r.origin = "guess" =>
                /\ disc'.last.op = "repair"
                /\ disc'.last.id = r.id
                /\ ~disc'.last.alive
           /\ (disc'.last.op \in {"standard", "local", "repair"} /\ disc'.last.alive) =>
                (r.url = agencies.rows[i].url /\ r.origin = "reconciler")]_vars

\* sync_and_repair_agencies found a guess for an agency of the reconciler whose
\* stored url answered, and the url of the reconciler is still there
ReconciledGuessedOnlyWhenDeadWitness ==
  /\ disc.last.op = "repair"
  /\ disc.last.alive
  /\ disc.last.origin = "guess"
  /\ \E r \in RowsOf(agencies.rows, disc.last.id) : r.origin = "reconciler" /\ r.reconciled

\* C21: in a local government task the registry lookup comes before the
\* domain patterns, and whenever the lookup returns a URL that URL is the one
\* the discovery settles on, for every category, special districts included.
RegistryUrlSelected ==
  (disc.last.op = "local" /\ disc.last.lookup) => disc.last.origin = "lookup"

(***************************************************************************)
(* Claims about the deep scan and the Compliance Gate                      *)
(***************************************************************************)
\* C17: an agency whose normalized URL was crawled before, in this run or in
\* an earlier one, is skipped, so no agency URL is navigated more than once
\* (the agencies on file have different normalized URLs, so two navigations
\* to one normalized URL are two navigations to one URL).
AgencyUrlNavigatedOnce ==
  \A m, n \in web.nav :
    (m.kind = "agency" /\ n.kind = "agency" /\ m.url = n.url) => m = n

\* C18: every navigation of the deep scan, to the URL of an agency and to the
\* bids page found on it, goes to a URL that the gate of the scraper was asked
\* about and allowed.
NavigatedOnlyWhenAllowed ==
  \A n \in web.nav :
    \E a \in web.asked : a.scanner = n.scanner /\ a.url = n.url /\ a.allowed

\* C19: the jobs share the state of the gate: two requests to one host that
\* the gate allowed, by one job or by two, are at least the minimum delay
\* apart, and robots.txt of a host is downloaded at most once.
GateStateShared ==
  /\ \A g \in web.gaps : g >= MinDelay
  /\ \A h \in DOMAIN web.fetched : web.fetched[h] <= 1

\* C20: can_fetch allows a URL when robots.txt of the host could not be
\* downloaded, refuses it when a rule of the file disallows its path, and
\* answers every later URL of the host from the outcome of the first download.
CanFetchPolicy ==
  /\ \A a \in web.asked :
       /\ a.read = "unreachable" => a.allowed
       /\ (a.read = "rules" /\ \E e \in RobotsDisallow : StartsWith(urlparse(a.url).path, e))
            => ~a.allowed
  /\ \A a, b \in web.asked :
       (a.scanner = b.scanner /\ base_url(a.url) = base_url(b.url)) => a.read = b.read

(***************************************************************************)
(* Claims about the URL functions of the discovery                         *)
(***************************************************************************)
\* C23: is_better_url(new, old) is false whenever new is empty, whatever old
\* is, and true whenever old is empty and new is not; in neither case is the
\* liveness of a URL checked.
BetterUrlEmptyCases ==
  (upc = "done" /\ uin.fn = "is_better_url") =>
    /\ (uin.new_url \in {NoText, <<>>}) => (~uout.result /\ ~uout.checked)
    /\ (uin.new_url \notin {NoText, <<>>} /\ uin.old_url \in {NoText, <<>>})
         => (uout.result /\ ~uout.checked)

\* a call with a new URL and no stored URL returned true without a liveness check
BetterUrlEmptyCasesWitness ==
  /\ upc = "done"
  /\ uin.fn = "is_better_url"
  /\ uin.new_url = <<"h", "t", "t", "p", "s", ":", "/", "/", "e", "l", "y", ".", "o", "r", "g">>
  /\ uin.old_url = NoText
  /\ uout.result
  /\ ~uout.checked

\* the host of a URL, in lower case and without a leading www.
HostOf(url) ==
  IF StartsWith(Lower(urlparse(url).netloc), <<"w", "w", "w", ".">>)
  THEN SubSeq(Lower(urlparse(url).netloc), 5, Len(urlparse(url).netloc))
  ELSE Lower(urlparse(url).netloc)
\* a URL that is a domain and nothing else
BareRoot(url) == url \notin {NoText, <<>>} /\ urlparse(url).path \in {<<>>, <<"/">>}

\* C24: when the stored URL is live and is a deep link or lies on another
\* domain than the new URL, and the new URL is a bare root domain, the result
\* is false, also when new is a .gov domain and old is not; when the stored
\* URL is dead and the new URL is not empty the result is true.
SpecificityGuard ==
  (upc = "done" /\ uin.fn = "is_better_url" /\ uin.old_url \notin {NoText, <<>>}) =>
    /\ (/\ uin.old_reachable
        /\ BareRoot(uin.new_url)
        /\ (~BareRoot(uin.old_url) \/ HostOf(uin.old_url) # HostOf(uin.new_url)))
         => ~uout.result
    /\ (~uin.old_reachable /\ uin.new_url \notin {NoText, <<>>}) => uout.result

\* a live page of a .org domain was kept although the new URL is a .gov root
SpecificityGuardWitness ==
  /\ upc = "done"
  /\ uin.fn = "is_better_url"
  /\ uin.new_url = <<"h", "t", "t", "p", "s", ":", "/", "/", "e", "l", "y", ".", "g", "o", "v">>
  /\ uin.old_url = <<"h", "t", "t", "p", "s", ":", "/", "/", "e", "l", "y", "h", "a", ".", "o", "r", "g", "/", "b", "i", "d", "s">>
  /\ uin.old_reachable
  /\ uout.checked
  /\ ~uout.result

\* the domain of the URL ends in the government suffix
GovDomain(url) == EndsWith(HostOf(url), <<".", "g", "o", "v">>)

\* C25: when the stored URL is live and the specificity guard does not apply,
\* the result is true exactly when the domain of new ends in .gov and the
\* domain of old does not.
AuthorityUpgradeOnly ==
  (/\ upc = "done" /\ uin.fn = "is_better_url"
   /\ uin.new_url \notin {NoText, <<>>} /\ uin.old_url \notin {NoText, <<>>}
   /\ uin.old_reachable
   /\ ~(BareRoot(uin.new_url)
        /\ (~BareRoot(uin.old_url) \/ HostOf(uin.old_url) # HostOf(uin.new_url))))
    => (uout.result <=> (GovDomain(uin.new_url) /\ ~GovDomain(uin.old_url)))

\* the patterns of the call that produce the candidate c
PatternsOf(c) ==
  {k \in DOMAIN uin.patterns :
     \E n \in DOMAIN pattern_candidates(uin.name, uin.state_abbr, uin.patterns[k]) :
       pattern_candidates(uin.name, uin.state_abbr, uin.patterns[k])[n] = c}

\* C26: _generate_candidates returns a list without duplicate URL, every URL
\* of it starts with https://, and the candidates stand in the order in which
\* the patterns first produce them (each candidate of a pattern is in the list).
CandidatesUniqueHttpsOrdered ==
  (upc = "done" /\ uin.fn = "_generate_candidates") =>
    /\ \A i, j \in DOMAIN uout.result : uout.result[i] = uout.result[j] => i = j
    /\ \A i \in DOMAIN uout.result :
         /\ StartsWith(uout.result[i], <<"h", "t", "t", "p", "s", ":", "/", "/">>)
         /\ PatternsOf(uout.result[i]) # {}
    /\ \A i, j \in DOMAIN uout.result :
         i < j => Least(PatternsOf(uout.result[i])) <= Least(PatternsOf(uout.result[j]))
    /\ \A k \in DOMAIN uin.patterns :
         \A n \in DOMAIN pattern_candidates(uin.name, uin.state_abbr, uin.patterns[k]) :
           \E i \in DOMAIN uout.result :
             uout.result[i] = pattern_candidates(uin.name, uin.state_abbr, uin.patterns[k])[n]

\* two patterns that give the same domain, and a pattern with a scheme: the
\* two candidates of the first pattern are returned once
CandidatesUniqueHttpsOrderedWitness ==
  /\ upc = "done"
  /\ uin.fn = "_generate_candidates"
  /\ uin.name = <<"N", "e", "w", " ", "E", "l", "y">>
  /\ uin.patterns = <<<<"[", "c", "i", "t", "y", "n", "a", "m", "e", "]", ".", "g", "o", "v">>, <<"h", "t", "t", "p", ":", "/", "/", "[", "n", "a", "m", "e", "]", ".", "u", "s">>, <<"[", "t", "o", "w", "n", "n", "a", "m", "e", "]", ".", "g", "o", "v">>>>
  /\ uout.result = <<<<"h", "t", "t", "p", "s", ":", "/", "/", "n", "e", "w", "e", "l", "y", ".", "g", "o", "v">>, <<"h", "t", "t", "p", "s", ":", "/", "/", "w", "w", "w", ".", "n", "e", "w", "e", "l", "y", ".", "g", "o", "v">>>>

(***************************************************************************)
(* Claims about the store of agencies and jurisdictions                    *)
(***************************************************************************)
\* C27: an agency record is removed only in a discovery step in which the
\* discovery found no URL for the slot of the record and the liveness check of
\* its stored URL failed; no other operation removes an agency record.
AgencyRemovedOnlyWhenDead ==
  [][\A i \in DOMAIN agencies.rows :
       RowsOf(agencies'.rows, agencies.rows[i].id) = {} =>
         /\ disc'.last.op = "local"
         /\ disc'.last.id = agencies.rows[i].id
         /\ disc'.last.origin = "none"
         /\ ~disc'.last.alive]_vars

\* the table holds at most one row for a (state, name, kind)
OnePerTriple(tbl) ==
  \A i, j \in DOMAIN tbl.rows :
    (/\ tbl.rows[i].state_id = tbl.rows[j].state_id
     /\ tbl.rows[i].name = tbl.rows[j].name
     /\ tbl.rows[i].type = tbl.rows[j].type) => i = j

\* C28: whatever appends and initializations are made, interleaved or not,
\* the table holds at most one row for a (state, name, kind), and an append
\* for a triple that has a row returns the id of that row.
AppendReturnsExistingId ==
  [][/\ OnePerTriple(juris')
     /\ \A p \in StoreJobs :
          (/\ calls'[p] # calls[p]
           /\ calls[p].pc \in {"idle", "insert"}
           /\ calls'[p].pc # "insert"
           /\ select_jurisdiction(juris, StateId, calls'[p].name, calls'[p].type) # NoId)
            => /\ calls'[p].outcome = "returned"
               /\ calls'[p].id = select_jurisdiction(juris, StateId, calls'[p].name, calls'[p].type)]_vars

\* what the table and the appends do keep: the table holds at most one row for
\* a (state, name, kind) at any time; an append whose SELECT finds the row returns its id and writes nothing; an
\* append whose SELECT found none inserts the row and returns the new id, or,
\* when another job has inserted the triple in between, raises IntegrityError
\* and writes nothing.
AppendUniqueOrRaises ==
  [][/\ OnePerTriple(juris) /\ OnePerTriple(juris')
     /\ \A p \in StoreJobs :
          /\ (calls[p].pc = "idle" /\ calls'[p] # calls[p]
              /\ select_jurisdiction(juris, StateId, calls'[p].name, calls'[p].type) # NoId)
               => /\ calls'[p].outcome = "returned"
                  /\ calls'[p].id = select_jurisdiction(juris, StateId, calls'[p].name, calls'[p].type)
                  /\ juris' = juris
          /\ (calls[p].pc = "insert" /\ calls'[p] # calls[p])
               => IF select_jurisdiction(juris, StateId, calls[p].name, calls[p].type) # NoId
                  THEN calls'[p].outcome = "raised" /\ calls'[p].pc = "failed" /\ juris' = juris
                  ELSE /\ calls'[p].outcome = "returned"
                       /\ calls'[p].id = select_jurisdiction(juris', StateId, calls[p].name, calls[p].type)
                       /\ calls'[p].id \notin {juris.rows[i].id : i \in DOMAIN juris.rows}]_vars

\* one job inserted a jurisdiction, and the append of another job for the same
\* triple returned the id of that row
AppendUniqueOrRaisesWitness ==
  \E p, q \in StoreJobs :
    /\ p # q
    /\ calls[p].outcome = "returned" /\ calls[q].outcome = "returned"
    /\ calls[p].name = calls[q].name /\ calls[p].type = calls[q].type
    /\ calls[p].id = calls[q].id
    /\ juris.seq >= 1
    /\ calls[p].id = juris.seq

\* two agency records occupy the same slot: (state, category, local
\* jurisdiction) when both are linked to a jurisdiction, (state, name,
\* category) when neither is
SameSlot(a, b) ==
  /\ a.state_id = b.state_id
  /\ a.category = b.category
  /\ IF a.local_jurisdiction_id # NoId /\ b.local_jurisdiction_id # NoId
     THEN a.local_jurisdiction_id = b.local_jurisdiction_id
     ELSE /\ a.local_jurisdiction_id = NoId /\ b.local_jurisdiction_id = NoId
          /\ a.organization_name = b.organization_name

\* C29: after any sequence of discovery runs and registry syncs, no two agency
\* records occupy the same slot.
OneAgencyPerSlot ==
  \A i, j \in DOMAIN agencies.rows :
    SameSlot(agencies.rows[i], agencies.rows[j]) => i = j

\* C30: an insert_bid with a fingerprint that is already stored changes only
\* the deadline, the trade classification and the last-seen timestamp of the
\* stored record: client, title, source URL and state stay, and so does a
\* description once it is set.
ReinsertKeepsOtherFields ==
  [][\A i \in DOMAIN bids :
       (i \in DOMAIN bids' /\ bids'[i].slug = bids[i].slug) =>
         /\ bids'[i].client_name = bids[i].client_name
         /\ bids'[i].title = bids[i].title
         /\ bids'[i].source_url = bids[i].source_url
         /\ bids'[i].state = bids[i].state
         /\ bids[i].rfp_description # NoText => bids'[i].rfp_description = bids[i].rfp_description]_vars

(***************************************************************************)
(* Claims about the order of the two levels, the wait for a bot challenge  *)
(* and the files                                                           *)
(***************************************************************************)
\* the positions of scrape in the deep scan, and after it
Level2Positions == {"agency", "bids", "return", "raised"}

\* C31: within one run of scrape for a jurisdiction every accepted Level-1
\* opportunity is persisted before the first step of the deep scan: an insert
\* of a Level-1 item is made only while Level 1 runs, and once the deep scan
\* has begun the run does not come back to Level 1.
Level1PersistedBeforeLevel2 ==
  [][/\ (task.pc = "scrape" /\ ninserts' # ninserts) =>
          IF scr.pc = "l1"
          THEN /\ scr'.last.level = 1 /\ scr'.last.verdict = "accepted"
               /\ scr'.results # <<>>
               /\ scr'.results[Len(scr'.results)].source_type = "Standard"
               /\ bids' = Persist(bids, scr'.results[Len(scr'.results)], CurrentState, today)
          ELSE scr.pc = "bids" /\ scr'.last.level = 2
                 /\ scr'.results[Len(scr'.results)].source_type = "Deep Scan"
     /\ (task.pc = "scrape" /\ scr.pc \in Level2Positions) =>
          scr'.pc \in Level2Positions \cup {"idle"}]_vars

\* the deep scan of a state is under way and Level 1 has persisted an item
Level1PersistedBeforeLevel2Witness ==
  /\ task.pc = "scrape" /\ scr.pc \in {"agency", "bids"}
  /\ scr.last.level = 2
  /\ \E n \in DOMAIN scr.results : scr.results[n].source_type = "Standard"
  /\ bids # <<>>

(***************************************************************************)
(* Claims about generate_and_validate_domains                              *)
(***************************************************************************)
TierRank(tier) == IF tier = "golden" THEN 0 ELSE IF tier = "specific" THEN 1 ELSE 2
Verified(p) == p.url \in uin.verified

\* C32: the golden candidates are probed first, then the candidates of the
\* specific patterns, then those of the generic patterns; no candidate of a
\* later tier is probed once an earlier tier has a verified URL, and generic
\* candidates are probed only if no specific candidate was verified.
TiersProbedInOrder ==
  uout # NoCall /\ uout.fn = "generate_and_validate_domains" =>
    LET probed == uout.probed
    IN /\ \A i, j \in DOMAIN probed : i < j => TierRank(probed[i].tier) <= TierRank(probed[j].tier)
       /\ \A i, j \in DOMAIN probed :
            TierRank(probed[i].tier) < TierRank(probed[j].tier) => ~Verified(probed[i])
       /\ \A i \in DOMAIN probed :
            i <= 2 => probed[i].tier = "golden"
                        /\ probed[i].url = golden_candidates(uin.name, uin.state_abbr)[i]
       /\ \A i \in DOMAIN probed :
            /\ probed[i].tier = "golden" => i <= 2
            /\ probed[i].tier = "specific" =>
                 i > 2 /\ probed[i].url = _generate_candidates(uin.name, uin.state_abbr, uin.specific_patterns)[i - 2]
            /\ probed[i].tier = "generic" =>
                 \E k \in DOMAIN _generate_candidates(uin.name, uin.state_abbr, uin.generic_patterns) :
                   probed[i].url = _generate_candidates(uin.name, uin.state_abbr, uin.generic_patterns)[k]
       /\ (upc = "done" /\ uin.name # <<>>) => Len(probed) >= 2

\* a call probed the three tiers, and a call stopped after the specific tier
\* with generic patterns left unprobed
TiersProbedInOrderWitness ==
  /\ upc = "done" /\ uout.fn = "generate_and_validate_domains"
  /\ uin.generic_patterns # <<>>
  /\ \E i \in DOMAIN uout.probed : uout.probed[i].tier = "specific" /\ Verified(uout.probed[i])
  /\ uout.result # NoText

\* the verified candidates of a tier
VerifiedIn(tier) ==
  {uout.probed[i].url : i \in {k \in DOMAIN uout.probed : uout.probed[k].tier = tier /\ Verified(uout.probed[k])}}

\* C33: the URL returned is a shortest one among the candidates verified in
\* the tier that produced it (golden, specific or generic), and the call
\* returns None when no candidate of any tier was verified.
ShortestVerifiedReturned ==
  (upc = "done" /\ uout.fn = "generate_and_validate_domains") =>
    IF \E i \in DOMAIN uout.probed : Verified(uout.probed[i])
    THEN /\ uout.result \in VerifiedIn(uout.tier)
         /\ \A u \in VerifiedIn(uout.tier) : Len(uout.result) <= Len(u)
    ELSE uout.result = NoText

(***************************************************************************)
(* Claims about the wait for a bot challenge                               *)
(***************************************************************************)
\* C34: when _handle_captcha has detected a challenge, by a marker in the
\* title or by a marker in the text of the page, it resumes the scan only
\* when the markers that made the detection are gone from the page.
ResumesOnlyWhenMarkersGone ==
  [][(cap.pc = "wait" /\ cap'.pc = "settle") =>
       /\ cap.via = "title" => ~has_marker(browser_page.title)
       /\ cap.via = "content" => ~has_marker(browser_page.content)]_vars

RegistryDownloadedOnce == disc.downloads <= 1

(***************************************************************************)
(* Claims about files in the deep scan                                     *)
(***************************************************************************)
\* C37: the deep scan never navigates to a URL that points to a file: an
\* agency whose URL is a file is left before the Compliance Gate is asked and
\* before any navigation, and a better URL that is a file is not navigated to.
NoFileNavigated ==
  /\ \A n \in web.nav : ~is_file_url(n.url)
  /\ \A a \in web.asked : ~is_file_url(a.url)
  /\ \A i \in Scanners : deep[i].pc \in {"gate", "page"} => ~is_file_url(DeepAgencies[deep[i].k].url)

\* a scanner has gone through all agencies, the one with a file URL
\* included, and has navigated to the page of an agency
NoFileNavigatedWitness ==
  \E i \in Scanners :
    /\ deep[i].pc = "done"
    /\ \E k \in DOMAIN DeepAgencies : is_file_url(DeepAgencies[k].url)
    /\ \E n \in web.nav : n.scanner = i /\ n.kind = "agency"

(***************************************************************************)
(* Claims about the order that is_better_url puts on URLs                  *)
(***************************************************************************)
\* C38: is_better_url is asymmetric: when is_better_url(a, b) is true,
\* is_better_url(b, a) is false whether b answers or not, and
\* is_better_url(u, u) is false for every non-empty u.
IsBetterUrlAsymmetric ==
  (upc = "done" /\ uin.fn = "is_better_url") =>
    /\ (uin.new_url = uin.old_url /\ uin.new_url \notin {NoText, <<>>}) => ~uout.result
    /\ uout.result => \A r \in BOOLEAN : ~is_better_url(uin.old_url, uin.new_url, r)

(***************************************************************************)
(* Claims about the fields of a job read through get_job                   *)
(***************************************************************************)
\* the fields of a job record agree with its status
ConsistentJob(job) ==
  /\ job.status = "running" => job.error = None /\ job.result = None
  /\ job.status = "completed" =>
       job.progress = ProgressOne /\ job.error = None /\ job.result \in Results
  /\ job.status = "failed" =>
       /\ job.error # None
       /\ job.result = None
       /\ \E n \in DOMAIN job.logs : job.logs[n] = CriticalEntry(job.error)

\* what a reader of the dictionary get_job returned may find: it reads
\* without the lock, so while the worker is inside the section that records
\* the result it finds the stored record or the record after any of the
\* section's assignments
Readable(job_id) ==
  IF lock.op = "complete" /\ lock.jid = job_id
  THEN {jobs[job_id]} \cup wrapper_completed_steps(jobs, job_id, wout[job_id])
  ELSE {jobs[job_id]}

\* C39: in every state, the job a client got from get_job has consistent
\* fields: running has neither error nor result; completed has progress 1.0,
\* no error and the returned value as result; failed has an error, no result
\* and the critical-error entry in its log.
JobFieldsConsistent ==
  \A c \in Clients : ret[c].kind = "ref" => \A job \in Readable(ret[c].id) : ConsistentJob(job)

(***************************************************************************)
(* Claims about the dedup check of the deep scan                           *)
(***************************************************************************)
\* a URL without scheme, www. prefix and trailing slash, in lower case
NormalizedUrl(url) ==
  Lower(RStripChar(RemoveAll(RemoveAll(RemoveAll(url, <<"h", "t", "t", "p", "s", ":", "/", "/">>), <<"h", "t", "t", "p", ":", "/", "/">>), <<"w", "w", "w", ".">>), "/"))

\* C40: the deep scan skips an agency as already scraped only if the source
\* URL of a stored opportunity equals the agency's own URL after
\* normalization; a stored link that merely contains the agency's URL does
\* not make the agency skipped.
DedupOnlyOnEqualUrl ==
  [][(/\ task.pc = "scrape" /\ scr.pc = "agency"
      /\ scr' # scr
      /\ scr'.last.level = 2 /\ scr'.last.verdict = "dedup") =>
       \E i \in DOMAIN bids :
         NormalizedUrl(bids[i].source_url) =
           NormalizedUrl(AgenciesOf[CurrentState][scr.k].url)]_vars

====
